---- MODULE Spec2Model ----
(***************************************************************************)
(* A model of the agentic task orchestrator of AJFrio/AIDev:               *)
(*   ai_assistant.py  AIAssistant.execute_objective (the session loop)     *)
(*   ai_tools.py      AITools (the tools over the repository host)         *)
(*   github_client.py GitHubClient (the repository host client)            *)
(* Strings the code inspects (paths, assistant text) are sequences of      *)
(* one-character strings, so that startswith, strip, split, lower and the  *)
(* substring test are computed as the code computes them.                  *)
(***************************************************************************)
EXTENDS Integers, Sequences, FiniteSets, TLC

VARIABLES
    pc,                   \* position in execute_objective / the direct tool driver
    max_iterations,       \* execute_objective parameter
    create_pr,            \* execute_objective parameter
    fallback_to_main,     \* execute_objective parameter
    branch_name,          \* AIAssistant.branch_name
    branch_created,       \* local of execute_objective
    working_branch,       \* local of execute_objective
    conversation_history, \* AIAssistant.conversation_history
    iteration,            \* local of execute_objective
    pending,              \* tool calls of the current turn not dispatched yet
    result,               \* the record execute_objective returned
    current_directory,    \* AITools.current_directory
    branch,               \* AITools.branch
    modified_files,       \* AITools.modified_files
    repo,                 \* the working branch on the host: set of [path, sha]
    absentListing,        \* the client reports a missing directory as None
    engineCalls,          \* number of call_openai calls made
    dispatched,           \* number of execute_tool calls made
    prCalls,              \* number of create_pull_request calls made
    hostCalls,            \* the host calls made by the last step, in order
    hostWrites,           \* every write the host accepted, in order
    lastCall,             \* the last execute_tool call and what it returned
    lastParameters,       \* the parameter mapping of the last execute_tool call
    ai_response,          \* what the last call_openai call returned
    description,          \* one _create_pr_description call: arguments and body
    naming,               \* the AIAssistant objects constructed, the clock, the branches
    pair,                 \* two sessions side by side and the heap of their lists
    relay,                \* the VoiceServer, its handler threads and what clients received
    webhook               \* the JiraWebhookHandler, its requests and its worker threads

\* the state of one session: an AIAssistant, its AITools and the branch
orchestratorVars ==
    <<pc, max_iterations, create_pr, fallback_to_main, branch_name,
      branch_created, working_branch, conversation_history, iteration,
      pending, result, current_directory, branch, modified_files, repo,
      absentListing, engineCalls, dispatched, prCalls, hostCalls,
      hostWrites, lastCall, lastParameters, ai_response>>

\* the state a step of a session does not touch
otherVars == <<description, naming, pair, relay, webhook>>

vars == <<orchestratorVars, otherVars>>

sessionVars == <<max_iterations, create_pr, fallback_to_main, branch_name>>
toolVars == <<current_directory, modified_files, repo, hostCalls, hostWrites,
              lastCall, lastParameters, dispatched>>

(***************************************************************************)
(* Bounds of the model.                                                    *)
(***************************************************************************)
MaxIterations == 3     \* max_iterations ranges over 0..MaxIterations
MaxDirectCalls == 4    \* tool calls of a direct (test-style) tool sequence
MaxPathCalls == 3      \* tool calls of a sequence that exercises path resolution
MaxTicks == 2          \* seconds the clock advances while sessions are constructed
MaxPairIterations == 2 \* iterations of each of two sessions run side by side
MaxRelayMessages == 4  \* messages the relay server takes from its clients
MaxDeliveries == 3     \* webhook deliveries the Jira server takes
MaxCursorCalls == 4    \* tool calls of a sequence that moves the cursor

(***************************************************************************)
(* Strings as sequences of characters.                                     *)
(***************************************************************************)
Slash == <<"/">>

\* str.startswith
StartsWith(s, p) == Len(p) <= Len(s) /\ SubSeq(s, 1, Len(p)) = p

\* sub in s
Contains(s, sub) ==
    \E i \in 1..(Len(s) - Len(sub) + 1) : SubSeq(s, i, i + Len(sub) - 1) = sub

RECURSIVE LStrip(_)
LStrip(s) == IF s # <<>> /\ Head(s) = "/" THEN LStrip(Tail(s)) ELSE s

RECURSIVE RStrip(_)
RStrip(s) == IF s # <<>> /\ s[Len(s)] = "/" THEN RStrip(SubSeq(s, 1, Len(s) - 1)) ELSE s

\* str.strip("/")
Strip(s) == RStrip(LStrip(s))

\* index of the last "/" of s, 0 when there is none
RECURSIVE LastSlash(_, _)
LastSlash(s, i) == IF i = 0 THEN 0 ELSE IF s[i] = "/" THEN i ELSE LastSlash(s, i - 1)

\* "/".join(s.split("/")[:-1]) when s has more than one part, else ""
DropLastSegment(s) ==
    LET k == LastSlash(s, Len(s)) IN IF k = 0 THEN <<>> ELSE SubSeq(s, 1, k - 1)

\* s.split("/") as a sequence of segments
RECURSIVE Split(_)
Split(s) ==
    LET k == LastSlash(s, Len(s)) IN
    IF k = 0 THEN <<s>> ELSE Append(Split(SubSeq(s, 1, k - 1)), SubSeq(s, k + 1, Len(s)))

\* str.lower on the ASCII letters
UpperLetters ==
    <<"A", "B", "C", "D", "E", "F", "G", "H", "I", "J", "K", "L", "M", "N",
      "O", "P", "Q", "R", "S", "T", "U", "V", "W", "X", "Y", "Z">>
LowerLetters ==
    <<"a", "b", "c", "d", "e", "f", "g", "h", "i", "j", "k", "l", "m", "n",
      "o", "p", "q", "r", "s", "t", "u", "v", "w", "x", "y", "z">>
LowerChar(c) ==
    IF \E i \in 1..26 : UpperLetters[i] = c
    THEN LowerLetters[CHOOSE i \in 1..26 : UpperLetters[i] = c]
    ELSE c
Lower(s) == [i \in 1..Len(s) |-> LowerChar(s[i])]

(***************************************************************************)
(* Values.                                                                 *)
(***************************************************************************)
Missing == <<"<missing>">>      \* a key the parameter mapping does not hold
GitKeep == <<".", "g", "i", "t", "k", "e", "e", "p">>
MainBranch == <<"m", "a", "i", "n">>

TrueValue == <<"true">>
FalseValue == <<"false">>

P_a == <<"a">>
P_d == <<"d">>
P_da == <<"d", "/", "a">>
P_n == <<"n">>
P_up == <<".", ".">>
P_dot == <<".">>

(***************************************************************************)
(* The repository host behind GitHubClient.  repo is the tree of the       *)
(* branch the tools work on: a set of files [path, sha].                   *)
(***************************************************************************)
IsFile(path) == \E f \in repo : f.path = path

ShaOf(path) == (CHOOSE f \in repo : f.path = path).sha

FilesUnder(path) ==
    IF path = <<>> THEN repo
    ELSE {f \in repo : StartsWith(f.path, path \o Slash)}

IsDir(path) == FilesUnder(path) # {}

\* the entries the contents API lists for a directory
Entries(path) ==
    LET skip == IF path = <<>> THEN 0 ELSE Len(path) + 1
        rest(f) == Split(SubSeq(f.path, skip + 1, Len(f.path)))
    IN {[path |-> (IF path = <<>> THEN <<>> ELSE path \o Slash) \o rest(f)[1],
         type |-> IF Len(rest(f)) = 1 THEN "file" ELSE "dir"] : f \in FilesUnder(path)}

ValidPath(path) ==
    /\ path # <<>>
    /\ \A i \in 1..Len(Split(path)) : Split(path)[i] \notin {<<>>, P_dot, P_up}

\* an ancestor directory of path that is a file on the branch
FileAbove(path) ==
    \E i \in 1..Len(path) : path[i] = "/" /\ IsFile(SubSeq(path, 1, i - 1))

MaxSha == IF repo = {} THEN 0 ELSE CHOOSE n \in {f.sha : f \in repo} : \A f \in repo : f.sha <= n

\* the contents API accepts a PUT: a new file takes no sha, an existing file
\* takes its current sha
HostAccepts(path, sha) ==
    /\ ValidPath(path)
    /\ ~IsDir(path)
    /\ ~FileAbove(path)
    /\ IsFile(path) => sha = ShaOf(path)

RepoAfterWrite(path) ==
    {f \in repo : f.path # path} \cup {[path |-> path, sha |-> MaxSha + 1]}

\* one request to the host: sha is the fingerprint sent (0: none), ret what
\* came back (a sha, 0 for None or False, 1 for True or found, -1 for an
\* exception, -2 for a None listing, else the number of entries listed)
HostCall(op, path, sha, ret) ==
    [op |-> op, path |-> path, branch |-> branch, sha |-> sha, ret |-> ret]

ListingRet(contents) ==
    IF contents.status = "raise" THEN -1
    ELSE IF contents.status = "none" THEN -2
    ELSE Cardinality(contents.entries)

ShaRet(sha) == IF sha.status = "raise" THEN -1 ELSE sha.sha

\* GitHubClient.get_repository_structure: ok is whether the request succeeds
GetRepositoryStructure(ok, path) ==
    IF ok /\ IsDir(path) THEN [status |-> "ok", entries |-> Entries(path)]
    ELSE IF ok /\ IsFile(path) THEN [status |-> "raise", entries |-> {}]
    ELSE [status |-> "ok", entries |-> {}]

\* MockGitHubClient.get_repository_structure: a lookup that cannot fail, None
\* for a directory not there
MockRepositoryStructure(ok, path) ==
    IF IsDir(path) THEN [status |-> "ok", entries |-> Entries(path)]
    ELSE [status |-> "none", entries |-> {}]

ClientStructure(ok, path) ==
    IF absentListing THEN MockRepositoryStructure(ok, path)
    ELSE GetRepositoryStructure(ok, path)

\* GitHubClient.get_file_sha: sha 0 is None
GetFileSha(ok, path) ==
    IF ~ok THEN [status |-> "ok", sha |-> 0]
    ELSE IF IsFile(path) THEN [status |-> "ok", sha |-> ShaOf(path)]
    ELSE IF IsDir(path) THEN [status |-> "raise", sha |-> 0]
    ELSE [status |-> "ok", sha |-> 0]

\* GitHubClient.get_file_content
GetFileContent(ok, path) ==
    IF ~ok THEN [status |-> "ok", found |-> FALSE]
    ELSE IF IsFile(path) THEN [status |-> "ok", found |-> TRUE]
    ELSE IF IsDir(path) THEN [status |-> "raise", found |-> FALSE]
    ELSE [status |-> "ok", found |-> FALSE]

\* GitHubClient.update_file_content: TRUE when the PUT went through
UpdateFileContent(ok, path, sha) == ok /\ HostAccepts(path, sha)

(***************************************************************************)
(* AITools.  Every tool is an action on the tool state; the record it      *)
(* returns is lastCall'.result.                                            *)
(***************************************************************************)
NoSummary == <<>>

Result(success, error) ==
    [success |-> success, error |-> error, task_completed |-> FALSE,
     summary |-> NoSummary, objective_success |-> FALSE, modified_files |-> <<>>]

Returned(name, full_path, r) ==
    [name |-> name, full_path |-> full_path, raised |-> FALSE, result |-> r]

\* an exception that leaves execute_tool
Raised(name) ==
    [name |-> name, full_path |-> <<>>, raised |-> TRUE, result |-> Result(FALSE, "raised")]

NoCall == [name |-> "none", full_path |-> <<>>, raised |-> FALSE, result |-> Result(FALSE, "")]

FileChange(path, action) == [file_path |-> path, action |-> action, branch |-> branch]

\* the path read_file, update_file and add_file work on
FilePath(file_path) ==
    IF current_directory # <<>> /\ ~StartsWith(file_path, current_directory)
    THEN Strip(current_directory \o Slash \o file_path)
    ELSE file_path

\* the path make_dir works on
MakeDirPath(directory_path) ==
    IF StartsWith(directory_path, Slash) THEN Strip(directory_path)
    ELSE IF current_directory # <<>> /\ ~StartsWith(directory_path, current_directory)
    THEN Strip(current_directory \o Slash \o directory_path)
    ELSE directory_path

\* ChangeDirPath gone wrong: ".." goes back to the root
ChangeDirPathToRoot(directory_path) ==
    IF StartsWith(directory_path, Slash) THEN Strip(directory_path)
    ELSE IF directory_path = P_up THEN <<>>
    ELSE IF directory_path = P_dot THEN current_directory
    ELSE IF current_directory # <<>> THEN Strip(current_directory \o Slash \o directory_path)
    ELSE directory_path

\* the path change_dir moves to
ChangeDirPath(directory_path) ==
    IF StartsWith(directory_path, Slash) THEN Strip(directory_path)
    ELSE IF directory_path = P_up THEN
        IF current_directory # <<>> THEN DropLastSegment(current_directory) ELSE <<>>
    ELSE IF directory_path = P_dot THEN current_directory
    ELSE IF current_directory # <<>> THEN Strip(current_directory \o Slash \o directory_path)
    ELSE directory_path

get_directory(directory_path) ==
    \E ok \in BOOLEAN :
        LET target_directory == directory_path
            contents == ClientStructure(ok, target_directory)
        IN /\ hostCalls' = <<HostCall("get_repository_structure", target_directory, 0, ListingRet(contents))>>
           /\ lastCall' = Returned("get_directory", target_directory,
                                   IF contents.status = "raise" THEN Result(FALSE, "exception")
                                   ELSE Result(TRUE, ""))
           /\ UNCHANGED <<current_directory, modified_files, repo, hostWrites>>

read_file(file_path) ==
    \E ok \in BOOLEAN :
        LET full_path == FilePath(file_path)
            content == GetFileContent(ok, full_path)
        IN /\ hostCalls' = <<HostCall("get_file_content", full_path, 0,
                                        IF content.status = "raise" THEN -1
                                        ELSE IF content.found THEN 1 ELSE 0)>>
           /\ lastCall' = Returned("read_file", full_path,
                                   IF content.status = "raise" THEN Result(FALSE, "exception")
                                   ELSE IF content.found THEN Result(TRUE, "")
                                   ELSE Result(FALSE, "Could not read file"))
           /\ UNCHANGED <<current_directory, modified_files, repo, hostWrites>>

\* WriteAndTrack gone wrong: the change is logged whether or not the PUT went through
WriteAndTrackAlways(name, full_path, written, sha, action, before, failure) ==
    \E ok \in BOOLEAN :
        LET success == UpdateFileContent(ok, written, sha) IN
        /\ hostCalls' = Append(before, HostCall("update_file_content", written, sha,
                                                IF success THEN 1 ELSE 0))
        /\ repo' = IF success THEN RepoAfterWrite(written) ELSE repo
        /\ hostWrites' = IF success
                         THEN Append(hostWrites, [path |-> written, sha |-> sha, branch |-> branch])
                         ELSE hostWrites
        /\ modified_files' = Append(modified_files, FileChange(written, action))
        /\ lastCall' = Returned(name, full_path,
                                IF success THEN Result(TRUE, "") ELSE Result(FALSE, failure))

\* the PUT of update_file, add_file and make_dir and the bookkeeping after it
WriteAndTrack(name, full_path, written, sha, action, before, failure) ==
    \E ok \in BOOLEAN :
        LET success == UpdateFileContent(ok, written, sha) IN
        /\ hostCalls' = Append(before, HostCall("update_file_content", written, sha,
                                                IF success THEN 1 ELSE 0))
        /\ repo' = IF success THEN RepoAfterWrite(written) ELSE repo
        /\ hostWrites' = IF success
                         THEN Append(hostWrites, [path |-> written, sha |-> sha, branch |-> branch])
                         ELSE hostWrites
        /\ modified_files' = IF success
                             THEN Append(modified_files, FileChange(written, action))
                             ELSE modified_files
        /\ lastCall' = Returned(name, full_path,
                                IF success THEN Result(TRUE, "") ELSE Result(FALSE, failure))

NoWrite(name, full_path, before, r) ==
    /\ hostCalls' = before
    /\ lastCall' = Returned(name, full_path, r)
    /\ UNCHANGED <<modified_files, repo, hostWrites>>

\* update_file gone wrong: no fingerprint, and the file is written all the same
update_file_blind(file_path) ==
    \E ok \in BOOLEAN :
        LET full_path == FilePath(file_path)
            sha == GetFileSha(ok, full_path)
            before == <<HostCall("get_file_sha", full_path, 0, ShaRet(sha))>>
        IN /\ UNCHANGED current_directory
           /\ IF sha.status = "raise"
              THEN NoWrite("update_file", full_path, before, Result(FALSE, "exception"))
              ELSE WriteAndTrack("update_file", full_path, full_path, sha.sha, "updated",
                                 before, "Failed to update")

update_file(file_path) ==
    \E ok \in BOOLEAN :
        LET full_path == FilePath(file_path)
            sha == GetFileSha(ok, full_path)
            before == <<HostCall("get_file_sha", full_path, 0, ShaRet(sha))>>
        IN /\ UNCHANGED current_directory
           /\ IF sha.status = "raise"
              THEN NoWrite("update_file", full_path, before, Result(FALSE, "exception"))
              ELSE IF sha.sha = 0
              THEN NoWrite("update_file", full_path, before, Result(FALSE, "Could not get SHA"))
              ELSE WriteAndTrack("update_file", full_path, full_path, sha.sha, "updated",
                                 before, "Failed to update")

add_file(file_path) ==
    \E ok \in BOOLEAN :
        LET full_path == FilePath(file_path)
            existing_sha == GetFileSha(ok, full_path)
            before == <<HostCall("get_file_sha", full_path, 0, ShaRet(existing_sha))>>
        IN /\ UNCHANGED current_directory
           /\ IF existing_sha.status = "raise"
              THEN NoWrite("add_file", full_path, before, Result(FALSE, "exception"))
              ELSE IF existing_sha.sha # 0
              THEN NoWrite("add_file", full_path, before, Result(FALSE, "File already exists"))
              ELSE WriteAndTrack("add_file", full_path, full_path, 0, "created",
                                 before, "Failed to create")

\* make_dir gone wrong: the placeholder is written without looking at the listing
make_dir_unchecked(directory_path) ==
    \E ok \in BOOLEAN :
        LET full_path == MakeDirPath(directory_path)
            existing_contents == ClientStructure(ok, full_path)
            before == <<HostCall("get_repository_structure", full_path, 0,
                                 ListingRet(existing_contents))>>
            gitkeep_path == full_path \o Slash \o GitKeep
        IN /\ UNCHANGED current_directory
           /\ IF existing_contents.status = "raise"
              THEN NoWrite("make_dir", full_path, before, Result(FALSE, "exception"))
              ELSE WriteAndTrack("make_dir", full_path, gitkeep_path, 0, "created",
                                 before, "Failed to create directory")

make_dir(directory_path) ==
    \E ok \in BOOLEAN :
        LET full_path == MakeDirPath(directory_path)
            existing_contents == ClientStructure(ok, full_path)
            before == <<HostCall("get_repository_structure", full_path, 0,
                                 ListingRet(existing_contents))>>
            gitkeep_path == full_path \o Slash \o GitKeep
        IN /\ UNCHANGED current_directory
           /\ IF existing_contents.status = "raise"
              THEN NoWrite("make_dir", full_path, before, Result(FALSE, "exception"))
              ELSE IF existing_contents.status # "none"
              THEN NoWrite("make_dir", full_path, before, Result(FALSE, "Directory already exists"))
              ELSE WriteAndTrack("make_dir", full_path, gitkeep_path, 0, "created",
                                 before, "Failed to create directory")

change_dir(directory_path) ==
    \E ok \in BOOLEAN :
        LET new_path == ChangeDirPath(directory_path)
            contents == ClientStructure(ok, new_path)
        IN /\ hostCalls' = <<HostCall("get_repository_structure", new_path, 0, ListingRet(contents))>>
           /\ current_directory' = IF contents.status = "ok" THEN new_path ELSE current_directory
           /\ lastCall' = Returned("change_dir", new_path,
                                   IF contents.status = "raise" THEN Result(FALSE, "exception")
                                   ELSE IF contents.status = "ok" THEN Result(TRUE, "")
                                   ELSE Result(FALSE, "Directory not found"))
           /\ UNCHANGED <<modified_files, repo, hostWrites>>

\* finish_task gone wrong: the record reports success and an empty mutation log
finish_task_forgetful(summary, success) ==
    /\ hostCalls' = <<>>
    /\ lastCall' = Returned("finish_task", <<>>,
                            [success |-> TRUE, error |-> "", task_completed |-> TRUE,
                             summary |-> summary, objective_success |-> TRUE,
                             modified_files |-> <<>>])
    /\ UNCHANGED <<current_directory, modified_files, repo, hostWrites>>

finish_task(summary, success) ==
    /\ hostCalls' = <<>>
    /\ lastCall' = Returned("finish_task", <<>>,
                            [success |-> TRUE, error |-> "", task_completed |-> TRUE,
                             summary |-> summary, objective_success |-> success,
                             modified_files |-> modified_files])
    /\ UNCHANGED <<current_directory, modified_files, repo, hostWrites>>

\* parameters[key] raised KeyError before the tool was entered
KeyError(tool_name) ==
    /\ hostCalls' = <<>>
    /\ lastCall' = Raised(tool_name)
    /\ UNCHANGED <<current_directory, modified_files, repo, hostWrites>>

UnknownTool(tool_name) ==
    /\ hostCalls' = <<>>
    /\ lastCall' = Returned(tool_name, <<>>, Result(FALSE, "Unknown tool"))
    /\ UNCHANGED <<current_directory, modified_files, repo, hostWrites>>

Has(parameters, key) == parameters[key] # Missing

execute_tool(tool_name, parameters) ==
    /\ dispatched' = dispatched + 1
    /\ lastParameters' = parameters
    /\ CASE tool_name = "get_directory" ->
              get_directory(IF Has(parameters, "directory_path")
                            THEN parameters.directory_path ELSE <<>>)
         [] tool_name = "read_file" ->
              IF Has(parameters, "file_path") THEN read_file(parameters.file_path)
              ELSE KeyError(tool_name)
         [] tool_name = "update_file" ->
              IF Has(parameters, "file_path") /\ Has(parameters, "content")
              THEN update_file(parameters.file_path) ELSE KeyError(tool_name)
         [] tool_name = "add_file" ->
              IF Has(parameters, "file_path") /\ Has(parameters, "content")
              THEN add_file(parameters.file_path) ELSE KeyError(tool_name)
         [] tool_name = "make_dir" ->
              IF Has(parameters, "directory_path") THEN make_dir(parameters.directory_path)
              ELSE KeyError(tool_name)
         [] tool_name = "change_dir" ->
              IF Has(parameters, "directory_path") THEN change_dir(parameters.directory_path)
              ELSE KeyError(tool_name)
         [] tool_name = "finish_task" ->
              IF Has(parameters, "summary")
              THEN finish_task(parameters.summary,
                               IF Has(parameters, "success") THEN parameters.success = TrueValue
                               ELSE TRUE)
              ELSE KeyError(tool_name)
         [] OTHER -> UnknownTool(tool_name)

(***************************************************************************)
(* AIAssistant.execute_objective.                                          *)
(***************************************************************************)
SessionBranch == <<"a", "i", "-", "d", "e", "v", "/", "x">>
SystemPrompt == <<"S">>
UserObjective == <<"U">>
ContinueMessage == <<"C">>
Summary == <<"s">>
NoContent == <<>>
PlainText == <<"I", " ", "a", "m", " ", "o", "n", " ", "i", "t">>
DoneText == <<"A", "l", "l", " ", "D", "O", "N", "E">>

CompletionPhrases ==
    {<<"t", "a", "s", "k", " ", "i", "s", " ", "c", "o", "m", "p", "l", "e", "t", "e">>,
     <<"o", "b", "j", "e", "c", "t", "i", "v", "e", " ", "i", "s", " ", "c", "o", "m", "p", "l", "e", "t", "e">>,
     <<"f", "i", "n", "i", "s", "h", "e", "d">>,
     <<"d", "o", "n", "e">>}

\* any(phrase in content.lower() for phrase in [...])
HasCompletionPhrase(content) ==
    \E phrase \in CompletionPhrases : Contains(Lower(content), phrase)

NoParameters ==
    [directory_path |-> Missing, file_path |-> Missing, content |-> Missing,
     summary |-> Missing, success |-> Missing]

\* the arguments string of a tool call: JSON text of a mapping, or not JSON
Json(value) == [json_ok |-> TRUE, value |-> value]
NotJson == [json_ok |-> FALSE, value |-> NoParameters]

\* json.loads(arguments), {} on JSONDecodeError
ParseArguments(arguments) == IF arguments.json_ok THEN arguments.value ELSE NoParameters

ToolCall(name, arguments) == [name |-> name, arguments |-> arguments]

Call_get_directory == ToolCall("get_directory", Json(NoParameters))
Call_add_n == ToolCall("add_file", Json([NoParameters EXCEPT !.file_path = P_n, !.content = <<"c">>]))
Call_update_n == ToolCall("update_file", Json([NoParameters EXCEPT !.file_path = P_n, !.content = <<"c">>]))
Call_finish_ok == ToolCall("finish_task", Json([NoParameters EXCEPT !.summary = Summary, !.success = TrueValue]))
Call_finish_failed == ToolCall("finish_task", Json([NoParameters EXCEPT !.summary = Summary, !.success = FalseValue]))
Call_read_notjson == ToolCall("read_file", NotJson)
Call_unknown == ToolCall("deploy", Json(NoParameters))

\* what the reasoning engine may answer in one turn: text and requested calls
Turn(content, calls) == [error |-> FALSE, content |-> content, calls |-> calls]
NoResponse == Turn(NoContent, <<>>)

EngineTurns ==
    {Turn(PlainText, <<>>),
     Turn(NoContent, <<>>),
     Turn(DoneText, <<>>),
     Turn(NoContent, <<Call_get_directory>>),
     Turn(NoContent, <<Call_add_n>>),
     Turn(NoContent, <<Call_finish_ok>>),
     Turn(NoContent, <<Call_finish_failed>>),
     Turn(DoneText, <<Call_finish_failed>>),
     Turn(DoneText, <<Call_add_n>>),
     Turn(NoContent, <<Call_read_notjson>>),
     Turn(NoContent, <<Call_unknown, Call_get_directory>>),
     Turn(NoContent, <<Call_add_n, Call_update_n>>),
     Turn(PlainText, <<Call_finish_ok, Call_add_n>>),
     [error |-> TRUE, content |-> NoContent, calls |-> <<>>]}

\* the engine numbers the calls of a turn: the correlation ids
WithIds(calls, turn) ==
    [i \in 1..Len(calls) |->
        [id |-> 10 * turn + i, name |-> calls[i].name, arguments |-> calls[i].arguments]]

Message(role, content, tool_calls, tool_call_id, r) ==
    [role |-> role, content |-> content, tool_calls |-> tool_calls,
     tool_call_id |-> tool_call_id, result |-> r]

SystemMessage == Message("system", SystemPrompt, <<>>, 0, Result(FALSE, ""))
UserMessage(content) == Message("user", content, <<>>, 0, Result(FALSE, ""))
AssistantMessage(content, tool_calls) ==
    Message("assistant", content, tool_calls, 0, Result(FALSE, ""))
ToolMessage(tool_call_id, r) == Message("tool", NoContent, <<>>, tool_call_id, r)

\* Record gone wrong: a pull request that could not be opened fails the run
RecordFailedWithoutUrl(keys, success, text, final_response, n, pr_url, files) ==
    [keys |-> keys, success |-> success /\ (pr_url # 0 \/ ~(create_pr /\ branch_created)),
     text |-> text, final_response |-> final_response, iterations |-> n,
     branch |-> working_branch, pull_request_url |-> pr_url,
     used_main_branch |-> ~branch_created, modified_files |-> files]

\* the record execute_objective returns; keys are the keys the dict holds
Record(keys, success, text, final_response, n, pr_url, files) ==
    [keys |-> keys, success |-> success, text |-> text,
     final_response |-> final_response, iterations |-> n,
     branch |-> working_branch, pull_request_url |-> pr_url,
     used_main_branch |-> ~branch_created, modified_files |-> files]

NoResult ==
    [keys |-> {}, success |-> FALSE, text |-> "", final_response |-> <<>>,
     iterations |-> 0, branch |-> <<>>, pull_request_url |-> 0,
     used_main_branch |-> FALSE, modified_files |-> <<>>]

CompletedKeys ==
    {"success", "message", "final_response", "iterations", "branch",
     "pull_request_url", "used_main_branch"}

\* GitHubClient.create_branch
CreateBranch(access, push, scope, base_sha, status) ==
    IF ~access \/ ~push THEN FALSE
    ELSE IF ~scope THEN FALSE
    ELSE IF ~base_sha THEN FALSE
    ELSE status \in {201, 422} \/ status < 400

\* StopsForSafety gone wrong: a failed branch creation no longer stops the run
NeverStops(created) == FALSE

\* if not branch_created and not fallback_to_main: return
StopsForSafety(created) == ~created /\ ~fallback_to_main

\* working_branch = self.branch_name if branch_created else "main"
WorkingBranch(created) == IF created THEN branch_name ELSE MainBranch

\* ToolsBranch gone wrong: the tools are moved to main in every run
ToolsBranchAlwaysMain(created) == MainBranch

\* if not branch_created: self.ai_tools.branch = "main"
ToolsBranch(created) == IF ~created THEN MainBranch ELSE branch

\* EngineFailed gone wrong: the error of the engine call is not looked at
EngineErrorIgnored(response) == FALSE

\* if "error" in ai_response
EngineFailed(response) == response.error

\* while iteration < max_iterations
LoopGuard == iteration < max_iterations

\* if create_pr and branch_created
PrRequested == create_pr /\ branch_created

\* if tool_name == "finish_task" and result.get("task_completed")
IsFinish(tool_name, r) == tool_name = "finish_task" /\ r.task_completed

\* create_pull_request: url 0 is None.  The request is logged in prCalls.
OpenPullRequest(url, n, summary, files) ==
    IF PrRequested
    THEN /\ url \in {0, 1}
         /\ prCalls' = Append(prCalls, [head |-> working_branch, base |-> MainBranch,
                                        iterations |-> n, summary |-> summary,
                                        modified_files |-> files])
    ELSE /\ url = 0
         /\ UNCHANGED prCalls

(***************************************************************************)
(* AIAssistant._create_pr_description: the body of the pull request, a     *)
(* string built from the objective, the branch, the iteration count, the   *)
(* summary and the mutation log.                                           *)
(***************************************************************************)
Intro ==
    <<"T", "h", "i", "s", " ", "p", "u", "l", "l", " ", "r", "e", "q", "u",
      "e", "s", "t", " ", "w", "a", "s", " ", "c", "r", "e", "a", "t", "e",
      "d", " ", "b", "y", " ", "t", "h", "e", " ", "A", "I", " ", "D", "e",
      "v", ".">>
Closing ==
    <<"P", "l", "e", "a", "s", "e", " ", "r", "e", "v", "i", "e", "w", " ",
      "t", "h", "e", " ", "c", "h", "a", "n", "g", "e", "s", " ", "b", "e",
      "f", "o", "r", "e", " ", "m", "e", "r", "g", "i", "n", "g", ".">>
ObjectiveHeading == <<"*", "*", "O", "b", "j", "e", "c", "t", "i", "v", "e", ":", "*", "*">>
BranchHeading == <<"*", "*", "B", "r", "a", "n", "c", "h", ":", "*", "*">>
IterationsHeading ==
    <<"*", "*", "I", "t", "e", "r", "a", "t", "i", "o", "n", "s", ":", "*",
      "*">>
FilesChangedHeading ==
    <<"*", "*", "F", "i", "l", "e", "s", " ", "C", "h", "a", "n", "g", "e",
      "d", ":", "*", "*">>
SummaryHeading == <<"*", "*", "S", "u", "m", "m", "a", "r", "y", ":", "*", "*">>
NoneText == <<" ", "N", "o", "n", "e">>
UpdatedText == <<"u", "p", "d", "a", "t", "e", "d">>
CreatedText == <<"c", "r", "e", "a", "t", "e", "d">>
Newline == <<"\n">>
Space == <<" ">>
Backtick == <<"<backtick>">>   \* the one character U+0060
Bullet == <<"<bullet>">>       \* the one character U+2022
DigitChars == <<"0", "1", "2", "3", "4", "5", "6", "7", "8", "9">>

\* str(n) of a natural number
RECURSIVE Str(_)
Str(n) ==
    IF n < 10 THEN <<DigitChars[n + 1]>>
    ELSE Str(n \div 10) \o <<DigitChars[(n % 10) + 1]>>

ActionText(action) == IF action = "updated" THEN UpdatedText ELSE CreatedText

\* one line per record of the log: bullet, the path in backticks, the action
RECURSIVE FileLines(_)
FileLines(files) ==
    IF files = <<>> THEN <<>>
    ELSE Bullet \o Space \o Backtick \o Head(files).file_path \o Backtick \o Space
         \o <<"-">> \o Space \o ActionText(Head(files).action) \o Newline
         \o FileLines(Tail(files))

\* file_changes_section gone wrong: the log is never listed
no_files_section(files) == Newline \o FilesChangedHeading \o NoneText \o Newline

file_changes_section(files) ==
    IF files # <<>>
    THEN Newline \o FilesChangedHeading \o Newline \o FileLines(files)
    ELSE Newline \o FilesChangedHeading \o NoneText \o Newline

\* the summary section with the summary rendered twice
summary_section_twice(ai_summary) ==
    IF ai_summary # <<>>
    THEN Newline \o SummaryHeading \o Newline \o ai_summary \o Newline
         \o ai_summary \o Newline
    ELSE <<>>

summary_section(ai_summary) ==
    IF ai_summary # <<>>
    THEN Newline \o SummaryHeading \o Newline \o ai_summary \o Newline
    ELSE <<>>

create_pr_description(objective, branch_text, iterations, ai_summary, files) ==
    Intro \o Newline \o Newline
    \o ObjectiveHeading \o Space \o objective \o Newline \o Newline
    \o BranchHeading \o Space \o branch_text \o Newline
    \o IterationsHeading \o Space \o Str(iterations) \o Newline
    \o file_changes_section(files) \o summary_section(ai_summary)
    \o Newline \o Closing

\* the arguments of a call and the body it returned
Description(objective, branch_text, iterations, ai_summary, files, called, pr_body) ==
    [objective |-> objective, branch |-> branch_text, iterations |-> iterations,
     ai_summary |-> ai_summary, modified_files |-> files, called |-> called,
     pr_body |-> pr_body]

NoDescription == Description(<<>>, <<>>, 0, <<>>, <<>>, FALSE, <<>>)

(***************************************************************************)
(* AIAssistant.__init__ and AIAssistant._generate_branch_name: the branch  *)
(* name of a session, derived from the objective when none is supplied.    *)
(***************************************************************************)
Hyphen == <<"-">>
Ellipsis == <<".", ".", ".">>
BranchPrefix == <<"a", "i", "-", "d", "e", "v", "/">>
TaskPrefix == <<"t", "a", "s", "k", "-">>
Today == <<"2", "0", "2", "4", "1", "2", "0", "1">>   \* %Y%m%d of the modelled day

IsLetter(c) == \E i \in 1..26 : c = LowerLetters[i] \/ c = UpperLetters[i]
IsDigit(c) == \E i \in 1..10 : c = DigitChars[i]
\* \w of the pattern: a letter, a digit or the underscore
IsWordChar(c) == IsLetter(c) \/ IsDigit(c) \/ c = "_"

\* the maximal runs of \w characters of s, in order
RECURSIVE WordCharRuns(_, _)
WordCharRuns(s, run) ==
    IF s = <<>> THEN (IF run = <<>> THEN <<>> ELSE <<run>>)
    ELSE IF IsWordChar(Head(s)) THEN WordCharRuns(Tail(s), Append(run, Head(s)))
    ELSE (IF run = <<>> THEN <<>> ELSE <<run>>) \o WordCharRuns(Tail(s), <<>>)

AllLetters(w) == \A i \in 1..Len(w) : IsLetter(w[i])

\* re.findall(r'\b[a-zA-Z]+\b', s): a match starts and ends at a word
\* boundary, so it is a whole run of \w characters, and it holds letters only
FindWords(s) == SelectSeq(WordCharRuns(s, <<>>), AllLetters)

common_words ==
    {<<"t", "h", "e">>, <<"a">>, <<"a", "n">>, <<"a", "n", "d">>,
     <<"o", "r">>, <<"b", "u", "t">>, <<"i", "n">>, <<"o", "n">>,
     <<"a", "t">>, <<"t", "o">>, <<"f", "o", "r">>, <<"o", "f">>,
     <<"w", "i", "t", "h">>, <<"b", "y">>, <<"i", "s">>, <<"a", "r", "e">>,
     <<"w", "a", "s">>, <<"w", "e", "r", "e">>, <<"b", "e">>,
     <<"b", "e", "e", "n">>, <<"b", "e", "i", "n", "g">>,
     <<"h", "a", "v", "e">>, <<"h", "a", "s">>, <<"h", "a", "d">>,
     <<"d", "o">>, <<"d", "o", "e", "s">>, <<"d", "i", "d">>,
     <<"w", "i", "l", "l">>, <<"w", "o", "u", "l", "d">>,
     <<"c", "o", "u", "l", "d">>, <<"s", "h", "o", "u", "l", "d">>,
     <<"m", "a", "y">>, <<"m", "i", "g", "h", "t">>, <<"c", "a", "n">>,
     <<"t", "h", "i", "s">>, <<"t", "h", "a", "t">>,
     <<"t", "h", "e", "s", "e">>, <<"t", "h", "o", "s", "e">>}

\* s[:n]
Take(s, n) == IF n <= 0 THEN <<>> ELSE SubSeq(s, 1, IF n < Len(s) THEN n ELSE Len(s))

InSeq(x, s) == \E i \in 1..Len(s) : s[i] = x

\* '-'.join(words)
RECURSIVE JoinWords(_)
JoinWords(words) ==
    IF words = <<>> THEN <<>>
    ELSE IF Len(words) = 1 THEN Head(words)
    ELSE Head(words) \o Hyphen \o JoinWords(Tail(words))

\* two decimal digits, zero padded
Pad2(n) == <<DigitChars[(n \div 10) + 1], DigitChars[(n % 10) + 1]>>

\* datetime.now().strftime("%Y%m%d-%H%M%S") at second now of the day
Timestamp(now) ==
    Today \o Hyphen \o Pad2(now \div 3600) \o Pad2((now \div 60) % 60) \o Pad2(now % 60)

\* the words a derived name is made of
SummaryWords(objective) ==
    LET words == FindWords(Lower(objective))
        meaningful_words ==
            SelectSeq(words, LAMBDA word : word \notin common_words /\ Len(word) > 2)
        summary_words == Take(meaningful_words, 5)
        original_words ==
            SelectSeq(words, LAMBDA word : ~InSeq(word, summary_words) /\ Len(word) > 1)
    IN  IF Len(summary_words) < 3
        THEN summary_words \o Take(original_words, 5 - Len(summary_words))
        ELSE summary_words

\* _generate_branch_name with a time stamp appended to every name
generate_branch_name_stamped(objective, now) ==
    LET summary_words == SummaryWords(objective)
        summary == JoinWords(summary_words)
    IN  IF summary_words # <<>>
        THEN BranchPrefix \o (IF Len(summary) > 50 THEN Take(summary, 47) \o Ellipsis
                              ELSE summary) \o Hyphen \o Timestamp(now)
        ELSE BranchPrefix \o TaskPrefix \o Timestamp(now)

\* _generate_branch_name without the cut to 50 characters
generate_branch_name_uncut(objective, now) ==
    LET summary_words == SummaryWords(objective)
    IN  IF summary_words # <<>>
        THEN BranchPrefix \o JoinWords(summary_words)
        ELSE BranchPrefix \o TaskPrefix \o Timestamp(now)

generate_branch_name(objective, now) ==
    LET summary_words == SummaryWords(objective)
        summary == JoinWords(summary_words)
    IN  IF summary_words # <<>>
        THEN BranchPrefix \o (IF Len(summary) > 50 THEN Take(summary, 47) \o Ellipsis
                              ELSE summary)
        ELSE BranchPrefix \o TaskPrefix \o Timestamp(now)

\* the branch name AIAssistant.__init__ settles on
InitBranchName(objective, given_branch_name, now) ==
    IF given_branch_name = <<>>
    THEN IF objective # <<>>
         THEN generate_branch_name(objective, now)
         ELSE BranchPrefix \o TaskPrefix \o Timestamp(now)
    ELSE given_branch_name

\* the sessions constructed so far, the clock, and the branches of the host
NoNaming == [clock |-> 0, sessions |-> <<>>, refs |-> {}, writes |-> {}]

(***************************************************************************)
(* Two sessions side by side.  The lists an AIAssistant and its AITools    *)
(* hold (conversation_history, modified_files) are objects of a heap and   *)
(* the attributes hold references to them, so that it is the constructors  *)
(* that decide whether two sessions share a list.                          *)
(***************************************************************************)
\* a list that is one object for every session, as a class attribute is
SharedList(heap) == 1

\* a list literal evaluated with the heap as it is: a new object
NewList(heap) == Len(heap) + 1

Store(heap, ref, value) ==
    IF ref > Len(heap) THEN Append(heap, value) ELSE [heap EXCEPT ![ref] = value]

\* FilePath and ChangeDirPath for the cursor of a given AITools object
FilePathIn(cursor, file_path) ==
    IF cursor # <<>> /\ ~StartsWith(file_path, cursor)
    THEN Strip(cursor \o Slash \o file_path)
    ELSE file_path

ChangeDirPathIn(cursor, directory_path) ==
    IF StartsWith(directory_path, Slash) THEN Strip(directory_path)
    ELSE IF directory_path = P_up THEN
        IF cursor # <<>> THEN DropLastSegment(cursor) ELSE <<>>
    ELSE IF directory_path = P_dot THEN cursor
    ELSE IF cursor # <<>> THEN Strip(cursor \o Slash \o directory_path)
    ELSE directory_path

PairCall(name, path) == [name |-> name, path |-> path]
NoPairCall == PairCall("", <<>>)
FinishCall == PairCall("finish_task", <<>>)
NoPairResult == [returned |-> FALSE, success |-> FALSE, iterations |-> 0,
                 branch |-> <<>>, modified_files |-> <<>>]

\* what a session owns, by value: transcript, cursor, mutation log, result
Owned(history, cursor, log, r) ==
    [conversation_history |-> history, current_directory |-> cursor,
     modified_files |-> log, result |-> r]

\* the cursor after the tool call, given what the host answered
CursorAfter(cursor, call, ok) ==
    IF call.name = "change_dir" /\ ok THEN ChangeDirPathIn(cursor, call.path) ELSE cursor

\* the records the tool call appends to the mutation log
Tracked(cursor, call, ok, branch_text) ==
    IF call.name = "add_file" /\ ok
    THEN <<[file_path |-> FilePathIn(cursor, call.path), action |-> "created",
            branch |-> branch_text]>>
    ELSE <<>>

NoPair == [heap |-> <<>>, assistants |-> <<>>]

(***************************************************************************)
(* jira_webhook_server.py (and its copy secure_webhook_server.py):         *)
(* JiraWebhookHandler.  Flask serves each delivery on a thread of its own  *)
(* and every accepted delivery starts a worker thread, so a request and a  *)
(* worker are each a record with a position, and a step is what one thread *)
(* does between two points where another thread can run.                   *)
(***************************************************************************)
Tickets == {"T1", "T2"}

NoKey == ""

Deliveries == 1..MaxDeliveries

\* a request before it arrived, a thread before it was started
NoRequest == [pc |-> "none", event |-> "", issue_key |-> NoKey, status |-> ""]

NoThread == [pc |-> "none", ticket_key |-> NoKey]

\* JiraWebhookHandler.__init__: both sets empty, nothing delivered yet
NoWebhook ==
    [processing_tickets |-> {}, processed_tickets |-> {},
     request |-> [d \in Deliveries |-> NoRequest],
     thread |-> [d \in Deliveries |-> NoThread],
     delivered |-> 0]

\* a request that returned its response
Responded(r, status) == [r EXCEPT !.pc = "returned", !.status = status]

(***************************************************************************)
(* voice_chat/server.py: VoiceServer, the relay of the voice chat.  One    *)
(* handler thread per client; every block under self.lock is one step.     *)
(***************************************************************************)
Clients == {"c1", "c2", "c3"}

\* str.strip() for the blank
RECURSIVE LStripBlank(_)
LStripBlank(s) == IF s # <<>> /\ Head(s) = " " THEN LStripBlank(Tail(s)) ELSE s
RECURSIVE RStripBlank(_)
RStripBlank(s) ==
    IF s # <<>> /\ s[Len(s)] = " " THEN RStripBlank(SubSeq(s, 1, Len(s) - 1)) ELSE s
StripBlank(s) == RStripBlank(LStripBlank(s))

\* index of the first blank of s from position i on, 0 when there is none
RECURSIVE FirstBlank(_, _)
FirstBlank(s, i) ==
    IF i > Len(s) THEN 0 ELSE IF s[i] = " " THEN i ELSE FirstBlank(s, i + 1)

\* message.split(' ', 1)
SplitCommand(message) ==
    LET k == FirstBlank(message, 1)
    IN  IF k = 0 THEN <<message>>
        ELSE <<SubSeq(message, 1, k - 1), SubSeq(message, k + 1, Len(message))>>

CommandJoin == <<"J", "O", "I", "N">>
CommandLeave == <<"L", "E", "A", "V", "E">>
CommandAudio == <<"A", "U", "D", "I", "O">>

\* a dictionary without the key
Without(dict, key) == [k \in (DOMAIN dict) \ {key} |-> dict[k]]
\* list.remove(x) on a list that holds x at most once
RemoveFrom(list, x) == SelectSeq(list, LAMBDA y : y # x)

\* the block under the lock of leave_channel
LeaveChannel(r, client_socket) ==
    IF client_socket \in DOMAIN r.client_channels
    THEN LET channel_id == r.client_channels[client_socket]
             left == IF channel_id \in DOMAIN r.channels
                     THEN RemoveFrom(r.channels[channel_id], client_socket)
                     ELSE <<>>
         IN  [r EXCEPT
                 !.channels =
                     IF channel_id \notin DOMAIN r.channels THEN @
                     ELSE IF left = <<>> THEN Without(@, channel_id)
                     ELSE [@ EXCEPT ![channel_id] = left],
                 !.client_channels = Without(@, client_socket)]
    ELSE r

\* the block under the lock of join_channel
JoinChannel(r, client_socket, channel_id) ==
    [r EXCEPT
        !.channels =
            [k \in (DOMAIN @) \cup {channel_id} |->
                IF k = channel_id
                THEN Append(IF k \in DOMAIN @ THEN @[k] ELSE <<>>, client_socket)
                ELSE @[k]],
        !.client_channels =
            [k \in (DOMAIN @) \cup {client_socket} |->
                IF k = client_socket THEN channel_id ELSE @[k]]]

\* the recipients with the sender among them
recipients_with_sender(r, sender_socket) ==
    IF sender_socket \in DOMAIN r.client_channels
       /\ r.client_channels[sender_socket] \in DOMAIN r.channels
    THEN r.channels[r.client_channels[sender_socket]]
    ELSE <<>>

\* the block under the lock of broadcast_audio: the recipients
recipients_of(r, sender_socket) ==
    IF sender_socket \in DOMAIN r.client_channels
       /\ r.client_channels[sender_socket] \in DOMAIN r.channels
    THEN SelectSeq(r.channels[r.client_channels[sender_socket]],
                   LAMBDA c : c # sender_socket)
    ELSE <<>>

Idle(at) == [pc |-> at, channel_id |-> <<>>, audio_data |-> <<>>, recipients |-> <<>>,
             from_channel |-> <<>>]

\* the line a handler thread took last, and whose it was
NoLine == [client |-> "", line |-> <<>>]

\* VoiceServer.__init__: no channel, no client
NoRelay ==
    [channels |-> <<>>, client_channels |-> <<>>, clients |-> <<>>,
     handler |-> [c \in Clients |-> Idle("none")],
     received |-> [c \in Clients |-> {}],
     handled |-> 0,
     last |-> NoLine]

InitialRepo == {[path |-> P_a, sha |-> 1], [path |-> P_da, sha |-> 2]}

HttpStatus == {201, 422, 200, 403}

Init ==
    /\ pc = "init"
    /\ max_iterations \in 0..MaxIterations
    /\ create_pr \in BOOLEAN
    /\ fallback_to_main \in BOOLEAN
    /\ branch_name \in {SessionBranch, MainBranch}
    /\ branch_created = FALSE
    /\ working_branch = <<>>
    /\ conversation_history = <<>>
    /\ iteration = 0
    /\ pending = <<>>
    /\ result = NoResult
    /\ current_directory = <<>>
    /\ branch = branch_name
    /\ modified_files = <<>>
    /\ repo = InitialRepo
    /\ absentListing = FALSE
    /\ engineCalls = 0
    /\ dispatched = 0
    /\ prCalls = <<>>
    /\ hostCalls = <<>>
    /\ hostWrites = <<>>
    /\ lastCall = NoCall
    /\ lastParameters = NoParameters
    /\ ai_response = NoResponse
    /\ description = NoDescription
    /\ naming = NoNaming
    /\ pair = NoPair
    /\ relay = NoRelay
    /\ webhook = NoWebhook

\* lines 218-263: branch creation, the first listing, the seeded transcript
Start ==
    /\ pc = "init"
    /\ UNCHANGED otherVars
    /\ \E access, push, scope, base_sha, ok \in BOOLEAN, status \in HttpStatus :
        /\ branch_created' = IF ~fallback_to_main
                             THEN CreateBranch(access, push, scope, base_sha, status)
                             ELSE FALSE
        /\ IF StopsForSafety(branch_created')
           THEN /\ result' = [NoResult EXCEPT !.keys = {"success", "error", "instructions"},
                                              !.text = "Could not create branch"]
                /\ pc' = "done"
                /\ hostCalls' = <<>>
                /\ UNCHANGED <<working_branch, branch, conversation_history>>
           ELSE /\ working_branch' = WorkingBranch(branch_created')
                /\ branch' = ToolsBranch(branch_created')
                /\ hostCalls' = <<[op |-> "get_repository_structure", path |-> <<>>,
                                   branch |-> working_branch', sha |-> 0,
                                   ret |-> ListingRet(GetRepositoryStructure(ok, <<>>))]>>
                /\ IF GetRepositoryStructure(ok, <<>>).entries = {}
                   THEN /\ result' = [NoResult EXCEPT !.keys = {"success", "error"},
                                          !.text = "Could not fetch repository structure"]
                        /\ pc' = "done"
                        /\ UNCHANGED conversation_history
                   ELSE /\ conversation_history' = <<SystemMessage, UserMessage(UserObjective)>>
                        /\ pc' = "loop"
                        /\ UNCHANGED result
    /\ UNCHANGED <<sessionVars, iteration, pending, current_directory, modified_files,
                   repo, absentListing, engineCalls, dispatched, prCalls, hostWrites,
                   lastCall, lastParameters, ai_response>>

\* AskToContinue gone wrong: a turn without tool calls is followed by nothing
NothingAsked(history) == history

\* AskToContinue gone wrong: the engine is asked twice
AskTwice(history) ==
    Append(Append(history, UserMessage(ContinueMessage)), UserMessage(ContinueMessage))

\* lines 414-417: no tool call found, ask the engine to continue
AskToContinue(history) == Append(history, UserMessage(ContinueMessage))

\* lines 264-348 and 414-417: one engine call and what follows it up to the
\* dispatch of the requested tool calls
EngineStep ==
    /\ pc = "loop"
    /\ UNCHANGED otherVars
    /\ LoopGuard
    /\ iteration' = iteration + 1
    /\ engineCalls' = engineCalls + 1
    /\ hostCalls' = <<>>
    /\ UNCHANGED <<sessionVars, branch_created, working_branch, current_directory,
                   branch, modified_files, repo, absentListing, dispatched,
                   hostWrites, lastCall, lastParameters>>
    /\ ai_response' \in EngineTurns
    /\ \E url \in {0, 1} :
        LET content == ai_response'.content
            tool_calls == WithIds(ai_response'.calls, iteration')
            appended == Append(conversation_history, AssistantMessage(content, tool_calls))
        IN IF EngineFailed(ai_response')
           THEN /\ url = 0
                /\ result' = [NoResult EXCEPT !.keys = {"success", "error", "iterations"},
                                              !.text = "Error calling OpenAI API",
                                              !.iterations = iteration']
                /\ pc' = "done"
                /\ UNCHANGED <<conversation_history, pending, prCalls>>
           ELSE IF content # <<>> /\ HasCompletionPhrase(content)
           THEN /\ OpenPullRequest(url, iteration', content, modified_files)
                /\ conversation_history' = appended
                /\ pending' = tool_calls
                /\ result' = Record(CompletedKeys, TRUE, "Task completed successfully",
                                    content, iteration', url, <<>>)
                /\ pc' = "done"
           ELSE IF tool_calls # <<>>
           THEN /\ url = 0
                /\ conversation_history' = appended
                /\ pending' = tool_calls
                /\ pc' = "tools"
                /\ UNCHANGED <<result, prCalls>>
           ELSE /\ url = 0
                /\ conversation_history' = AskToContinue(appended)
                /\ pc' = "loop"
                /\ UNCHANGED <<result, pending, prCalls>>

\* NextToolCall gone wrong: the calls of a turn are taken last first
LastToolCall(calls) == calls[Len(calls)]

\* for tool_call in tool_calls: the call the loop takes next
NextToolCall(calls) == Head(calls)

\* lines 351-413: the next requested tool call of the turn
ToolStep ==
    /\ pc = "tools"
    /\ UNCHANGED otherVars
    /\ pending # <<>>
    /\ UNCHANGED <<sessionVars, branch_created, working_branch, branch, absentListing,
                   iteration, engineCalls, ai_response>>
    /\ LET tool_call == NextToolCall(pending)
           tool_name == tool_call.name
           parameters == ParseArguments(tool_call.arguments)
       IN /\ execute_tool(tool_name, parameters)
          /\ pending' = Tail(pending)
          /\ \E url \in {0, 1} :
              IF lastCall'.raised
              THEN /\ url = 0
                   /\ pc' = "fault"
                   /\ UNCHANGED <<conversation_history, result, prCalls>>
              ELSE IF IsFinish(tool_name, lastCall'.result)
              THEN /\ OpenPullRequest(url, iteration, lastCall'.result.summary,
                                      lastCall'.result.modified_files)
                   /\ result' = Record(CompletedKeys \cup {"modified_files"},
                                       lastCall'.result.objective_success,
                                       "Task completed successfully using finish_task",
                                       lastCall'.result.summary, iteration, url,
                                       lastCall'.result.modified_files)
                   /\ pc' = "done"
                   /\ UNCHANGED conversation_history
              ELSE /\ url = 0
                   /\ conversation_history' =
                          Append(conversation_history, ToolMessage(tool_call.id, lastCall'.result))
                   /\ pc' = IF Tail(pending) = <<>> THEN "loop" ELSE "tools"
                   /\ UNCHANGED <<result, prCalls>>

\* lines 419-424: the budget ran out
Exhausted ==
    /\ pc = "loop"
    /\ UNCHANGED otherVars
    /\ ~LoopGuard
    /\ result' = [NoResult EXCEPT !.keys = {"success", "error", "iterations", "branch"},
                                  !.text = "Max iterations reached without completion",
                                  !.iterations = iteration, !.branch = working_branch]
    /\ pc' = "done"
    /\ hostCalls' = <<>>
    /\ UNCHANGED <<sessionVars, branch_created, working_branch, conversation_history,
                   iteration, pending, current_directory, branch, modified_files, repo,
                   absentListing, engineCalls, dispatched, prCalls, hostWrites, lastCall,
                   lastParameters, ai_response>>

Next == Start \/ EngineStep \/ ToolStep \/ Exhausted

Spec == Init /\ [][Next]_vars

(***************************************************************************)
(* The tools driven directly, as the repository's tests drive them: an     *)
(* AITools object over a client, and any sequence of execute_tool calls.   *)
(***************************************************************************)
P_nkeep == P_n \o Slash \o GitKeep

FileCall(name, path) ==
    ToolCall(name, Json([NoParameters EXCEPT !.file_path = path, !.content = <<"c">>]))
DirCall(name, path) ==
    ToolCall(name, Json([NoParameters EXCEPT !.directory_path = path]))

DirectCalls ==
    {Call_get_directory, DirCall("get_directory", P_d),
     FileCall("read_file", P_a), Call_read_notjson,
     FileCall("update_file", P_a), FileCall("update_file", P_n), FileCall("update_file", P_d),
     FileCall("add_file", P_n), FileCall("add_file", P_a), FileCall("add_file", P_nkeep),
     FileCall("add_file", P_d),
     DirCall("make_dir", P_n), DirCall("make_dir", P_d),
     DirCall("change_dir", P_d), DirCall("change_dir", P_n), DirCall("change_dir", P_up),
     Call_finish_ok, Call_unknown}

InitDirect ==
    /\ pc = "direct"
    /\ max_iterations = 0
    /\ create_pr = FALSE
    /\ fallback_to_main = FALSE
    /\ branch_name = SessionBranch
    /\ branch_created = FALSE
    /\ working_branch = <<>>
    /\ conversation_history = <<>>
    /\ iteration = 0
    /\ pending = <<>>
    /\ result = NoResult
    /\ current_directory = <<>>
    /\ branch = SessionBranch
    /\ modified_files = <<>>
    /\ repo = InitialRepo
    /\ absentListing \in BOOLEAN
    /\ engineCalls = 0
    /\ dispatched = 0
    /\ prCalls = <<>>
    /\ hostCalls = <<>>
    /\ hostWrites = <<>>
    /\ lastCall = NoCall
    /\ lastParameters = NoParameters
    /\ ai_response = NoResponse
    /\ description = NoDescription
    /\ naming = NoNaming
    /\ pair = NoPair
    /\ relay = NoRelay
    /\ webhook = NoWebhook

DirectCall ==
    /\ pc = "direct"
    /\ UNCHANGED otherVars
    /\ dispatched < MaxDirectCalls
    /\ \E tool_call \in DirectCalls :
        execute_tool(tool_call.name, ParseArguments(tool_call.arguments))
    /\ pc' = IF lastCall'.raised THEN "fault" ELSE "direct"
    /\ UNCHANGED <<sessionVars, branch_created, working_branch, conversation_history,
                   iteration, pending, result, branch, absentListing, engineCalls,
                   prCalls, ai_response>>

NextDirect == DirectCall

DirectSpec == InitDirect /\ [][NextDirect]_vars

(***************************************************************************)
(* The tools driven with paths of every form the resolution rules tell     *)
(* apart: empty, relative, starting with "/", already qualified by the     *)
(* cursor.                                                                 *)
(***************************************************************************)
P_empty == <<>>
P_sa == Slash \o P_a
P_sd == Slash \o P_d
P_sn == Slash \o P_n
P_dn == P_d \o Slash \o P_n

PathCalls ==
    {DirCall("change_dir", P_d), DirCall("change_dir", P_sd),
     DirCall("change_dir", P_da), DirCall("change_dir", P_empty),
     FileCall("read_file", P_a), FileCall("read_file", P_sa),
     FileCall("read_file", P_da), FileCall("read_file", P_empty),
     FileCall("update_file", P_a), FileCall("update_file", P_sa),
     FileCall("update_file", P_da), FileCall("update_file", P_empty),
     FileCall("add_file", P_n), FileCall("add_file", P_sn),
     FileCall("add_file", P_dn), FileCall("add_file", P_empty),
     DirCall("make_dir", P_n), DirCall("make_dir", P_sn),
     DirCall("make_dir", P_dn), DirCall("make_dir", P_empty),
     Call_get_directory, DirCall("get_directory", P_a)}

InitPaths ==
    /\ pc = "paths"
    /\ max_iterations = 0
    /\ create_pr = FALSE
    /\ fallback_to_main = FALSE
    /\ branch_name = SessionBranch
    /\ branch_created = FALSE
    /\ working_branch = <<>>
    /\ conversation_history = <<>>
    /\ iteration = 0
    /\ pending = <<>>
    /\ result = NoResult
    /\ current_directory = <<>>
    /\ branch = SessionBranch
    /\ modified_files = <<>>
    /\ repo = InitialRepo
    /\ absentListing \in BOOLEAN
    /\ engineCalls = 0
    /\ dispatched = 0
    /\ prCalls = <<>>
    /\ hostCalls = <<>>
    /\ hostWrites = <<>>
    /\ lastCall = NoCall
    /\ lastParameters = NoParameters
    /\ ai_response = NoResponse
    /\ description = NoDescription
    /\ naming = NoNaming
    /\ pair = NoPair
    /\ relay = NoRelay
    /\ webhook = NoWebhook

PathCall ==
    /\ pc = "paths"
    /\ UNCHANGED otherVars
    /\ dispatched < MaxPathCalls
    /\ \E tool_call \in PathCalls :
        execute_tool(tool_call.name, ParseArguments(tool_call.arguments))
    /\ pc' = "paths"
    /\ UNCHANGED <<sessionVars, branch_created, working_branch, conversation_history,
                   iteration, pending, result, branch, absentListing, engineCalls,
                   prCalls, ai_response>>

NextPaths == PathCall

PathSpec == InitPaths /\ [][NextPaths]_vars

(***************************************************************************)
(* _create_pr_description called on its own, as test_pr_description.py     *)
(* calls it, over objectives, summaries and logs of every shape.           *)
(***************************************************************************)
\* no session is running
OrchestratorIdle ==
    /\ pc = "idle"
    /\ max_iterations = 0
    /\ create_pr = FALSE
    /\ fallback_to_main = FALSE
    /\ branch_name = SessionBranch
    /\ branch_created = FALSE
    /\ working_branch = <<>>
    /\ conversation_history = <<>>
    /\ iteration = 0
    /\ pending = <<>>
    /\ result = NoResult
    /\ current_directory = <<>>
    /\ branch = SessionBranch
    /\ modified_files = <<>>
    /\ repo = InitialRepo
    /\ absentListing = FALSE
    /\ engineCalls = 0
    /\ dispatched = 0
    /\ prCalls = <<>>
    /\ hostCalls = <<>>
    /\ hostWrites = <<>>
    /\ lastCall = NoCall
    /\ lastParameters = NoParameters
    /\ ai_response = NoResponse

T_fix == <<"f", "i", "x">>
T_ok == <<"o", "k">>
T_e == <<"e">>
T_all_good == <<"a", "l", "l", " ", "g", "o", "o", "d">>

Objectives == {T_fix, T_ok, SummaryHeading}
Branches == {SessionBranch, MainBranch}
IterationCounts == {1, 12}
Summaries == {<<>>, T_ok, T_e, T_all_good}

Changed(path, action) == [file_path |-> path, action |-> action, branch |-> SessionBranch]

Logs ==
    {<<>>,
     <<Changed(P_a, "created")>>,
     <<Changed(P_a, "created"), Changed(P_da, "updated")>>,
     <<Changed(P_da, "updated"), Changed(P_a, "created")>>,
     <<Changed(P_a, "created"), Changed(P_a, "updated")>>}

InitDescription ==
    /\ OrchestratorIdle
    /\ \E objective \in Objectives, branch_text \in Branches, iterations \in IterationCounts,
          ai_summary \in Summaries, files \in Logs :
          description = Description(objective, branch_text, iterations, ai_summary, files,
                                    FALSE, <<>>)
    /\ naming = NoNaming
    /\ pair = NoPair
    /\ relay = NoRelay
    /\ webhook = NoWebhook

CreatePrDescription ==
    /\ ~description.called
    /\ description' =
          [description EXCEPT
              !.called = TRUE,
              !.pr_body = create_pr_description(description.objective, description.branch,
                                                description.iterations, description.ai_summary,
                                                description.modified_files)]
    /\ UNCHANGED orchestratorVars
    /\ UNCHANGED <<naming, pair, relay, webhook>>

NextDescription == CreatePrDescription

DescriptionSpec == InitDescription /\ [][NextDescription]_vars

(***************************************************************************)
(* AIAssistant objects constructed one after the other while the clock     *)
(* runs, each creating its branch on the host and writing on it.           *)
(***************************************************************************)
StartSecond == 52258    \* 14:30:58, the second of the day the clock starts at

O_fix_login_bug == <<"F", "i", "x", " ", "l", "o", "g", "i", "n", " ", "b", "u", "g">>
O_signup ==
    <<"A", "d", "d", " ", "i", "n", "p", "u", "t", " ", "v", "a", "l", "i",
      "d", "a", "t", "i", "o", "n", " ", "t", "o", " ", "s", "i", "g", "n",
      "u", "p", " ", "f", "o", "r", "m">>
O_do_it == <<"D", "o", " ", "i", "t">>
O_42 == <<"4", "2">>
O_fix_v2 ==
    <<"F", "i", "x", " ", "v", "2", " ", "A", "P", "I", "_", "K", "E", "Y",
      " ", "b", "u", "g">>
O_fix_the_fix == <<"F", "i", "x", " ", "t", "h", "e", " ", "F", "i", "x">>
O_long ==
    <<"I", "n", "t", "e", "r", "n", "a", "t", "i", "o", "n", "a", "l", "i",
      "z", "a", "t", "i", "o", "n", " ", "a", "u", "t", "h", "e", "n", "t",
      "i", "c", "a", "t", "i", "o", "n", " ", "c", "o", "n", "f", "i", "g",
      "u", "r", "a", "t", "i", "o", "n", " ", "d", "o", "c", "u", "m", "e",
      "n", "t", "a", "t", "i", "o", "n", " ", "i", "m", "p", "l", "e", "m",
      "e", "n", "t", "a", "t", "i", "o", "n">>
GivenBranch == <<"f", "e", "a", "t", "u", "r", "e", "/", "x">>

NamedObjectives ==
    {<<>>, O_fix_login_bug, O_signup, O_do_it, O_42, O_fix_v2, O_fix_the_fix, O_long}
GivenBranchNames == {<<>>, GivenBranch}

Now == StartSecond + naming.clock

InitNaming ==
    /\ OrchestratorIdle
    /\ description = NoDescription
    /\ naming = NoNaming
    /\ pair = NoPair
    /\ relay = NoRelay
    /\ webhook = NoWebhook

\* a second passes
Tick ==
    /\ naming.clock < MaxTicks
    /\ naming' = [naming EXCEPT !.clock = @ + 1]
    /\ UNCHANGED <<orchestratorVars, description, pair, relay, webhook>>

\* AIAssistant(..., objective=objective, branch_name=given_branch_name)
ConstructAssistant(objective, given_branch_name) ==
    /\ Len(naming.sessions) < 2
    /\ naming' =
          [naming EXCEPT
              !.sessions =
                  Append(@, [objective |-> objective,
                             given |-> given_branch_name,
                             at |-> Now,
                             branch_name |-> InitBranchName(objective, given_branch_name, Now),
                             branch_created |-> FALSE])]
    /\ UNCHANGED <<orchestratorVars, description, pair, relay, webhook>>

\* create_branch of session i: True when the host created the ref (201) and
\* when it answered that the ref exists already (422), False otherwise
CreateSessionBranch(i, ok) ==
    /\ i \in DOMAIN naming.sessions
    /\ ~naming.sessions[i].branch_created
    /\ naming' =
          [naming EXCEPT
              !.sessions[i].branch_created = ok,
              !.refs = IF ok THEN @ \cup {naming.sessions[i].branch_name} ELSE @]
    /\ UNCHANGED <<orchestratorVars, description, pair, relay, webhook>>

\* a write of session i: AITools writes on the branch it was constructed with
WriteOnBranch(i) ==
    /\ i \in DOMAIN naming.sessions
    /\ naming.sessions[i].branch_created
    /\ naming' =
          [naming EXCEPT
              !.writes = @ \cup {[by |-> i, branch |-> naming.sessions[i].branch_name]}]
    /\ UNCHANGED <<orchestratorVars, description, pair, relay, webhook>>

NextNaming ==
    \/ Tick
    \/ \E objective \in NamedObjectives, given_branch_name \in GivenBranchNames :
          ConstructAssistant(objective, given_branch_name)
    \/ \E i \in 1..2, ok \in BOOLEAN : CreateSessionBranch(i, ok)
    \/ \E i \in 1..2 : WriteOnBranch(i)

NamingSpec == InitNaming /\ [][NextNaming]_vars

(***************************************************************************)
(* Two AIAssistant objects whose execute_objective runs are interleaved    *)
(* step by step: the engine's turn and the tool call of an iteration are   *)
(* separate steps, and what the engine and the host answer is an input.    *)
(***************************************************************************)
PairCalls == {PairCall("change_dir", P_d), PairCall("add_file", P_a)}
PairBranches == {SessionBranch}

InitPair ==
    /\ OrchestratorIdle
    /\ description = NoDescription
    /\ naming = NoNaming
    /\ pair = NoPair
    /\ relay = NoRelay
    /\ webhook = NoWebhook

\* AIAssistant.__init__: AITools(...) makes the mutation log, then the
\* transcript is made; both are empty lists
NewAssistant(branch_text) ==
    /\ Len(pair.assistants) < 2
    /\ LET files_ref == NewList(pair.heap)
           heap1 == Store(pair.heap, files_ref, <<>>)
           history_ref == NewList(heap1)
           heap2 == Store(heap1, history_ref, <<>>)
       IN pair' =
             [heap |-> heap2,
              assistants |->
                  Append(pair.assistants,
                         [objective |-> T_fix, branch |-> branch_text,
                          conversation_history |-> history_ref,
                          modified_files |-> files_ref,
                          current_directory |-> <<>>,
                          pc |-> "constructed", call |-> NoPairCall, iteration |-> 0,
                          result |-> NoPairResult, trace |-> <<>>])]
    /\ UNCHANGED <<orchestratorVars, description, naming, relay, webhook>>

\* execute_objective up to the loop: the transcript is a new list holding
\* the system message and the objective
BeginObjective(i) ==
    /\ i \in DOMAIN pair.assistants
    /\ pair.assistants[i].pc = "constructed"
    /\ LET history_ref == NewList(pair.heap)
       IN pair' =
             [heap |-> Store(pair.heap, history_ref,
                             <<SystemMessage, UserMessage(pair.assistants[i].objective)>>),
              assistants |->
                  [pair.assistants EXCEPT
                      ![i].conversation_history = history_ref,
                      ![i].pc = "running",
                      ![i].trace = Append(@, [kind |-> "begin", call |-> NoPairCall,
                                              ok |-> FALSE])]]
    /\ UNCHANGED <<orchestratorVars, description, naming, relay, webhook>>

\* the engine answers with one tool call; the assistant message is appended
EngineTurn(i, call) ==
    /\ i \in DOMAIN pair.assistants
    /\ pair.assistants[i].pc = "running"
    /\ pair.assistants[i].iteration < MaxPairIterations
    /\ LET a == pair.assistants[i]
       IN pair' =
             [heap |-> [pair.heap EXCEPT
                           ![a.conversation_history] =
                               Append(@, AssistantMessage(<<>>, <<call>>))],
              assistants |->
                  [pair.assistants EXCEPT
                      ![i].pc = "asked",
                      ![i].call = call,
                      ![i].iteration = @ + 1,
                      ![i].trace = Append(@, [kind |-> "turn", call |-> call, ok |-> FALSE])]]
    /\ UNCHANGED <<orchestratorVars, description, naming, relay, webhook>>

\* execute_tool on the call asked for, the host answering ok; the tool
\* message is appended
ExecuteTool(i, ok) ==
    /\ i \in DOMAIN pair.assistants
    /\ pair.assistants[i].pc = "asked"
    /\ LET a == pair.assistants[i]
           tracked == Tracked(a.current_directory, a.call, ok, a.branch)
           heap1 == [pair.heap EXCEPT ![a.modified_files] = @ \o tracked]
       IN pair' =
             [heap |-> [heap1 EXCEPT
                           ![a.conversation_history] =
                               Append(@, ToolMessage(a.iteration, Result(ok, "")))],
              assistants |->
                  [pair.assistants EXCEPT
                      ![i].current_directory = CursorAfter(a.current_directory, a.call, ok),
                      ![i].pc = "running",
                      ![i].call = NoPairCall,
                      ![i].trace = Append(@, [kind |-> "tool", call |-> a.call, ok |-> ok])]]
    /\ UNCHANGED <<orchestratorVars, description, naming, relay, webhook>>

\* execute_objective returns.  While iterations remain the engine asks for
\* finish_task: the assistant message is appended and the result carries a
\* copy of the mutation log.  With the iterations used up the result is the
\* failure of the exhausted run.
ReturnResult(i) ==
    /\ i \in DOMAIN pair.assistants
    /\ pair.assistants[i].pc = "running"
    /\ LET a == pair.assistants[i]
           finishing == a.iteration < MaxPairIterations
       IN pair' =
             [heap |-> IF finishing
                       THEN [pair.heap EXCEPT
                                ![a.conversation_history] =
                                    Append(@, AssistantMessage(<<>>, <<FinishCall>>))]
                       ELSE pair.heap,
              assistants |->
                  [pair.assistants EXCEPT
                      ![i].pc = "done",
                      ![i].iteration = IF finishing THEN @ + 1 ELSE @,
                      ![i].result =
                          IF finishing
                          THEN [returned |-> TRUE, success |-> TRUE,
                                iterations |-> a.iteration + 1, branch |-> a.branch,
                                modified_files |-> pair.heap[a.modified_files]]
                          ELSE [returned |-> TRUE, success |-> FALSE,
                                iterations |-> a.iteration, branch |-> a.branch,
                                modified_files |-> <<>>],
                      ![i].trace = Append(@, [kind |-> "return", call |-> NoPairCall,
                                              ok |-> FALSE])]]
    /\ UNCHANGED <<orchestratorVars, description, naming, relay, webhook>>

NextPair ==
    \/ \E branch_text \in PairBranches : NewAssistant(branch_text)
    \/ \E i \in 1..2 : BeginObjective(i)
    \/ \E i \in 1..2, call \in PairCalls : EngineTurn(i, call)
    \/ \E i \in 1..2, ok \in BOOLEAN : ExecuteTool(i, ok)
    \/ \E i \in 1..2 : ReturnResult(i)

PairSpec == InitPair /\ [][NextPair]_vars

(***************************************************************************)
(* The relay server with its clients: connections are accepted, each       *)
(* handler thread takes the messages of its client one at a time, and the  *)
(* threads interleave between the blocks they run under the lock.          *)
(***************************************************************************)
M_join_a == <<"J", "O", "I", "N", " ", "a">>
M_join_b == <<"J", "O", "I", "N", " ", "b">>
M_leave == <<"L", "E", "A", "V", "E">>
M_audio_x == <<"A", "U", "D", "I", "O", " ", "x">>
M_audio == <<"A", "U", "D", "I", "O", " ">>
ClientMessages == {M_join_a, M_join_b, M_leave, M_audio_x, M_audio}

\* the socket of the client takes what the server sends
Online(c) == relay.handler[c].pc \in {"recv", "join_add", "send"}

RelayStays == UNCHANGED <<orchestratorVars, description, naming, pair, webhook>>

InitRelay ==
    /\ OrchestratorIdle
    /\ description = NoDescription
    /\ naming = NoNaming
    /\ pair = NoPair
    /\ relay = NoRelay
    /\ webhook = NoWebhook

\* start: a connection is accepted and its handler thread started
Accept(c) ==
    /\ relay.handler[c].pc = "none"
    /\ relay' = [relay EXCEPT !.clients = Append(@, c), !.handler[c] = Idle("recv")]
    /\ RelayStays

\* handle_client takes one line and process_message acts on it, up to the
\* end of the first block under the lock
ProcessMessage(c, line) ==
    /\ relay.handler[c].pc = "recv"
    /\ relay.handled < MaxRelayMessages
    /\ LET message == StripBlank(line)
           parts == SplitCommand(message)
           command == parts[1]
           counted == [relay EXCEPT !.handled = @ + 1,
                                    !.last = [client |-> c, line |-> line]]
       IN  relay' =
             IF message = <<>> THEN counted
             ELSE IF command = CommandJoin THEN
                 IF Len(parts) > 1
                 THEN [LeaveChannel(counted, c) EXCEPT
                          !.handler[c].pc = "join_add",
                          !.handler[c].channel_id = parts[2]]
                 ELSE counted
             ELSE IF command = CommandLeave THEN LeaveChannel(counted, c)
             ELSE IF command = CommandAudio THEN
                 IF Len(parts) > 1
                 THEN LET recipients == recipients_of(relay, c)
                      IN  IF recipients # <<>>
                          THEN [counted EXCEPT
                                   !.handler[c].pc = "send",
                                   !.handler[c].audio_data = parts[2],
                                   !.handler[c].recipients = recipients,
                                   !.handler[c].from_channel = relay.client_channels[c]]
                          ELSE counted
                 ELSE counted
             ELSE counted
    /\ RelayStays

\* join_channel after it left the current channel: the block under the lock
\* that adds the client, then the JOINED notice to the client
JoinAdd(c) ==
    /\ relay.handler[c].pc = "join_add"
    /\ LET channel_id == relay.handler[c].channel_id
       IN relay' =
             [JoinChannel(relay, c, channel_id) EXCEPT
                 !.handler[c] = Idle("recv"),
                 !.received[c] = @ \cup {[type |-> "JOINED", data |-> channel_id,
                                          from |-> c, channel |-> channel_id]}]
    /\ RelayStays

\* broadcast_audio outside the lock: sendall to the next recipient; a send
\* to a connection that is gone fails and is passed over
SendAudio(c) ==
    /\ relay.handler[c].pc = "send"
    /\ LET h == relay.handler[c]
           to == Head(h.recipients)
           rest == Tail(h.recipients)
       IN relay' =
             [relay EXCEPT
                 !.received[to] =
                     IF Online(to)
                     THEN @ \cup {[type |-> "AUDIO", data |-> h.audio_data,
                                   from |-> c, channel |-> h.from_channel]}
                     ELSE @,
                 !.handler[c] =
                     IF rest = <<>> THEN Idle("recv") ELSE [h EXCEPT !.recipients = rest]]
    /\ RelayStays

\* the connection ends: remove_client leaves the channel
ConnectionLost(c) ==
    /\ relay.handler[c].pc = "recv"
    /\ relay.handled < MaxRelayMessages
    /\ relay' = [LeaveChannel(relay, c) EXCEPT !.handler[c].pc = "remove",
                                                !.handled = @ + 1,
                                                !.last = [client |-> c, line |-> <<>>]]
    /\ RelayStays

\* remove_client takes the client off the list; the socket is closed
RemoveClient(c) ==
    /\ relay.handler[c].pc = "remove"
    /\ relay' = [relay EXCEPT !.clients = RemoveFrom(@, c), !.handler[c].pc = "closed"]
    /\ RelayStays

NextRelay ==
    \/ \E c \in Clients : Accept(c)
    \/ \E c \in Clients, line \in ClientMessages : ProcessMessage(c, line)
    \/ \E c \in Clients : JoinAdd(c)
    \/ \E c \in Clients : SendAudio(c)
    \/ \E c \in Clients : ConnectionLost(c)
    \/ \E c \in Clients : RemoveClient(c)

RelaySpec == InitRelay /\ [][NextRelay]_vars

(***************************************************************************)
(* The tools driven with change_dir calls of every form ('.', '..', with   *)
(* a leading or trailing '/', into a directory that is or is not there)    *)
(* and with file paths that begin with the text of the cursor, over a      *)
(* branch with nested directories.                                         *)
(***************************************************************************)
P_e == <<"e">>
P_dea == <<"d", "/", "e", "/", "a">>
P_dxa == <<"d", "x", "/", "a">>
P_dxn == <<"d", "x", "/", "n">>
P_dx == <<"d", "x">>
P_d_slash == <<"d", "/">>
P_up_d == <<".", ".", "/", "d">>

\* the files a, d/a, d/e/a and dx/a
NestedRepo ==
    {[path |-> P_a, sha |-> 1], [path |-> P_da, sha |-> 2],
     [path |-> P_dea, sha |-> 3], [path |-> P_dxa, sha |-> 4]}

CursorCalls ==
    {DirCall("change_dir", P_d), DirCall("change_dir", P_e),
     DirCall("change_dir", P_n), DirCall("change_dir", P_dot),
     DirCall("change_dir", P_up), DirCall("change_dir", P_sd),
     DirCall("change_dir", P_d_slash), DirCall("change_dir", P_up_d),
     FileCall("read_file", P_a), FileCall("read_file", P_dxa),
     FileCall("update_file", P_dxa), FileCall("add_file", P_dxn),
     DirCall("make_dir", P_dx)}

InitCursor ==
    /\ pc = "cursor"
    /\ max_iterations = 0
    /\ create_pr = FALSE
    /\ fallback_to_main = FALSE
    /\ branch_name = SessionBranch
    /\ branch_created = FALSE
    /\ working_branch = <<>>
    /\ conversation_history = <<>>
    /\ iteration = 0
    /\ pending = <<>>
    /\ result = NoResult
    /\ current_directory = <<>>
    /\ branch = SessionBranch
    /\ modified_files = <<>>
    /\ repo = NestedRepo
    /\ absentListing \in BOOLEAN
    /\ engineCalls = 0
    /\ dispatched = 0
    /\ prCalls = <<>>
    /\ hostCalls = <<>>
    /\ hostWrites = <<>>
    /\ lastCall = NoCall
    /\ lastParameters = NoParameters
    /\ ai_response = NoResponse
    /\ description = NoDescription
    /\ naming = NoNaming
    /\ pair = NoPair
    /\ relay = NoRelay
    /\ webhook = NoWebhook

CursorCall ==
    /\ pc = "cursor"
    /\ UNCHANGED otherVars
    /\ dispatched < MaxCursorCalls
    /\ \E tool_call \in CursorCalls :
        execute_tool(tool_call.name, ParseArguments(tool_call.arguments))
    /\ pc' = "cursor"
    /\ UNCHANGED <<sessionVars, branch_created, working_branch, conversation_history,
                   iteration, pending, result, branch, absentListing, engineCalls,
                   prCalls, ai_response>>

NextCursor == CursorCall

CursorSpec == InitCursor /\ [][NextCursor]_vars

(***************************************************************************)
(* The webhook server taking deliveries while its workers run.  What a     *)
(* worker does for the ticket (the Jira calls, the assistant) lies between *)
(* its first statement and its finally block and touches neither set.      *)
(***************************************************************************)
WebhookStays == UNCHANGED <<orchestratorVars, description, naming, pair, relay>>

InitWebhook ==
    /\ OrchestratorIdle
    /\ description = NoDescription
    /\ naming = NoNaming
    /\ pair = NoPair
    /\ relay = NoRelay
    /\ webhook = NoWebhook

\* jira_webhook and handle_webhook: a delivery arrives; an event that is not
\* an issue creation is ignored
Deliver(event, issue_key) ==
    /\ pc = "idle"
    /\ WebhookStays
    /\ webhook.delivered < MaxDeliveries
    /\ LET d == webhook.delivered + 1
           r == [NoRequest EXCEPT !.event = event, !.issue_key = issue_key]
       IN webhook' =
             [webhook EXCEPT
                 !.delivered = d,
                 !.request[d] =
                     IF event # "jira:issue_created" THEN Responded(r, "ignored")
                     ELSE [r EXCEPT !.pc = "created"]]

\* _handle_issue_created, lines 87-95: the key is taken from the delivery
ExtractKey(d) ==
    /\ pc = "idle"
    /\ WebhookStays
    /\ webhook.request[d].pc = "created"
    /\ webhook' =
          [webhook EXCEPT
              !.request[d] =
                  IF @.issue_key = NoKey THEN Responded(@, "error")
                  ELSE [@ EXCEPT !.pc = "check_processing"]]

\* lines 100-104: if issue_key in self.processing_tickets
CheckProcessing(d) ==
    /\ pc = "idle"
    /\ WebhookStays
    /\ webhook.request[d].pc = "check_processing"
    /\ webhook' =
          [webhook EXCEPT
              !.request[d] =
                  IF @.issue_key \in webhook.processing_tickets
                  THEN Responded(@, "skipped")
                  ELSE [@ EXCEPT !.pc = "check_processed"]]

\* lines 107-111: if issue_key in self.processed_tickets
CheckProcessed(d) ==
    /\ pc = "idle"
    /\ WebhookStays
    /\ webhook.request[d].pc = "check_processed"
    /\ webhook' =
          [webhook EXCEPT
              !.request[d] =
                  IF @.issue_key \in webhook.processed_tickets
                  THEN Responded(@, "skipped")
                  ELSE [@ EXCEPT !.pc = "start"]]

\* lines 114-124: the worker thread is started and the delivery is accepted
StartThread(d) ==
    /\ pc = "idle"
    /\ WebhookStays
    /\ webhook.request[d].pc = "start"
    /\ webhook' =
          [webhook EXCEPT
              !.thread[d] = [pc |-> "started", ticket_key |-> webhook.request[d].issue_key],
              !.request[d] = Responded(@, "accepted")]

\* _process_ticket_async, line 137: self.processing_tickets.add(ticket_key)
MarkProcessing(w) ==
    /\ pc = "idle"
    /\ WebhookStays
    /\ webhook.thread[w].pc = "started"
    /\ webhook' =
          [webhook EXCEPT
              !.processing_tickets = @ \cup {webhook.thread[w].ticket_key},
              !.thread[w].pc = "processing"]

\* line 225, in the finally block: self.processing_tickets.discard(ticket_key)
DiscardProcessing(w) ==
    /\ pc = "idle"
    /\ WebhookStays
    /\ webhook.thread[w].pc = "processing"
    /\ webhook' =
          [webhook EXCEPT
              !.processing_tickets = @ \ {webhook.thread[w].ticket_key},
              !.thread[w].pc = "discarded"]

\* line 226: self.processed_tickets.add(ticket_key)
MarkProcessed(w) ==
    /\ pc = "idle"
    /\ WebhookStays
    /\ webhook.thread[w].pc = "discarded"
    /\ webhook' =
          [webhook EXCEPT
              !.processed_tickets = @ \cup {webhook.thread[w].ticket_key},
              !.thread[w].pc = "finished"]

NextWebhook ==
    \/ \E event \in {"jira:issue_created", "jira:issue_updated"} :
           \E issue_key \in Tickets \cup {NoKey} : Deliver(event, issue_key)
    \/ \E d \in Deliveries : ExtractKey(d)
    \/ \E d \in Deliveries : CheckProcessing(d)
    \/ \E d \in Deliveries : CheckProcessed(d)
    \/ \E d \in Deliveries : StartThread(d)
    \/ \E w \in Deliveries : MarkProcessing(w)
    \/ \E w \in Deliveries : DiscardProcessing(w)
    \/ \E w \in Deliveries : MarkProcessed(w)

WebhookSpec == InitWebhook /\ [][NextWebhook]_vars

(***************************************************************************)
(* The claims.                                                             *)
(***************************************************************************)
Last(seq) == seq[Len(seq)]

Requests(m, name) == \E i \in DOMAIN m.tool_calls : m.tool_calls[i].name = name

\* the success flag of the finish_task call an assistant message requests
FinishFlag(m) ==
    LET i == CHOOSE k \in DOMAIN m.tool_calls : m.tool_calls[k].name = "finish_task"
    IN ParseArguments(m.tool_calls[i].arguments).success = TrueValue

Completed == result.text \in {"Task completed successfully",
                              "Task completed successfully using finish_task"}

\* C1: a turn whose text holds a completion phrase and which requests
\* finish_task completes through finish_task: the result carries finish_task's
\* success flag, summary and mutation log, and the phrase path does not fire.
C1_FinishTaskTakesPrecedence ==
    (/\ pc = "done"
     /\ conversation_history # <<>>
     /\ Last(conversation_history).role = "assistant"
     /\ HasCompletionPhrase(Last(conversation_history).content)
     /\ Requests(Last(conversation_history), "finish_task"))
    => /\ result.text = "Task completed successfully using finish_task"
       /\ result.success = FinishFlag(Last(conversation_history))
       /\ "modified_files" \in result.keys
       /\ result.final_response = Summary

\* C2 as stated: without fallback_to_main no write of the tools goes to the
\* default branch.
C2_NeverTheDefaultBranch ==
    ~fallback_to_main =>
        \A i \in DOMAIN hostWrites :
            hostWrites[i].branch = branch_name /\ hostWrites[i].branch # MainBranch

\* C2 amended: without fallback_to_main the tools stay on the session's branch
\* name, every host request and every accepted write carries it (so they reach
\* the default branch only when the caller named it as the session branch);
\* the tools' branch differs from it only under fallback_to_main, as main.
C2_ToolsStayOnSessionBranch ==
    /\ ~fallback_to_main =>
        /\ branch = branch_name
        /\ \A i \in DOMAIN hostCalls : hostCalls[i].branch = branch_name
        /\ \A i \in DOMAIN hostWrites : hostWrites[i].branch = branch_name
        /\ branch_name # MainBranch =>
              \A i \in DOMAIN hostWrites : hostWrites[i].branch # MainBranch
    /\ branch # branch_name => fallback_to_main /\ branch = MainBranch

C2_Witness ==
    /\ ~fallback_to_main
    /\ branch_name = SessionBranch
    /\ hostWrites # <<>>
    /\ Len(hostCalls) = 2

\* C3: when branch creation fails and fallback_to_main is false the run is over
\* with success=false, and the engine was never called, no tool dispatched, no
\* host request made by the tools, nothing written, the transcript empty.
C3_BranchFailureStopsEverything ==
    (pc # "init" /\ ~branch_created /\ ~fallback_to_main)
    => /\ pc = "done"
       /\ result.keys = {"success", "error", "instructions"}
       /\ ~result.success
       /\ engineCalls = 0
       /\ dispatched = 0
       /\ hostCalls = <<>>
       /\ hostWrites = <<>>
       /\ repo = InitialRepo
       /\ modified_files = <<>>
       /\ prCalls = <<>>
       /\ conversation_history = <<>>

C3_Witness ==
    pc = "done" /\ ~branch_created /\ ~fallback_to_main /\ max_iterations > 0

\* C4: the engine is called at most max_iterations times, and a run whose loop
\* was entered and that ended without completion and without an engine failure
\* ended in the exhaustion outcome, iterations = max_iterations = engine calls.
C4_BudgetExhaustion ==
    /\ engineCalls <= max_iterations
    /\ (/\ pc \in {"done", "fault"}
        /\ conversation_history # <<>>
        /\ ~Completed
        /\ ~ai_response.error)
       => /\ result.text = "Max iterations reached without completion"
          /\ ~result.success
          /\ result.iterations = max_iterations
          /\ engineCalls = max_iterations

\* C5: every tool call returns a record, whatever the name and the parameter
\* mapping: no call leaves execute_tool with an exception, an unknown name gets
\* the 'Unknown tool' failure, and a failed call is the tool message appended
\* last while the session goes on.
C5_ToolFailuresAreRecords ==
    /\ ~lastCall.raised
    /\ pc # "fault"
    /\ lastCall.name = "deploy" =>
          ~lastCall.result.success /\ lastCall.result.error = "Unknown tool"
    /\ pc \in {"loop", "tools"} =>
          Cardinality({i \in DOMAIN conversation_history :
                          conversation_history[i].role = "tool"}) = dispatched

\* C6: when the engine call fails at iteration k the run is over with
\* success=false, the error and iterations=k, and from then on no engine call,
\* no tool dispatch, no write, no change of the branch and no pull request.
C6_EngineFailureIsFatal ==
    /\ [](ai_response.error =>
            /\ pc = "done"
            /\ result.keys = {"success", "error", "iterations"}
            /\ ~result.success
            /\ result.text = "Error calling OpenAI API"
            /\ result.iterations = engineCalls
            /\ result.iterations = iteration)
    /\ [][ai_response.error =>
            UNCHANGED <<engineCalls, dispatched, repo, hostWrites, modified_files,
                        prCalls>>]_vars

C6_Witness ==
    ai_response.error /\ pc = "done" /\ engineCalls = 2 /\ hostWrites # <<>>

\* C7: a pull request is opened at most once, and only in a run that completed
\* with a true success flag, with create_pr, on a branch that was created.
C7_PullRequestOnlyOnSuccess ==
    /\ Len(prCalls) <= 1
    /\ prCalls # <<>> =>
          /\ pc = "done"
          /\ Completed
          /\ result.success
          /\ create_pr
          /\ branch_created
          /\ ~fallback_to_main

ActionOf(name) == IF name = "update_file" THEN "updated" ELSE "created"

WrittenPath(call) ==
    IF call.name = "make_dir" THEN call.full_path \o Slash \o GitKeep ELSE call.full_path

Mutating(call) == call.name \in {"add_file", "update_file", "make_dir"}

\* C8: the mutation log holds one record per successful add_file, update_file
\* or make_dir call, in call order, with the path written and the action of
\* the tool; it is the list of the writes the host accepted; a failed call and
\* a call of another tool leave it as it was.
C8_MutationLogMatchesWrites ==
    /\ [](/\ Len(modified_files) = Len(hostWrites)
          /\ \A i \in DOMAIN modified_files :
                /\ modified_files[i].file_path = hostWrites[i].path
                /\ modified_files[i].branch = hostWrites[i].branch
                /\ modified_files[i].action =
                      IF hostWrites[i].sha = 0 THEN "created" ELSE "updated")
    /\ [][dispatched' = dispatched + 1 =>
            IF Mutating(lastCall') /\ lastCall'.result.success
            THEN modified_files' =
                    Append(modified_files,
                           [file_path |-> WrittenPath(lastCall'),
                            action |-> ActionOf(lastCall'.name), branch |-> branch])
            ELSE modified_files' = modified_files]_vars

C8_Witness ==
    /\ Len(modified_files) = 2
    /\ modified_files[1].action = "created"
    /\ modified_files[2].action = "updated"
    /\ lastCall.name = "add_file"
    /\ ~lastCall.result.success

IssuedWrite(calls) == \E i \in DOMAIN calls : calls[i].op = "update_file_content"

\* C9: add_file on a path that exists on the branch returns success=false,
\* issues no write and appends no record.
C9_AddFileOnExistingPath ==
    [][(/\ dispatched' = dispatched + 1
        /\ lastCall'.name = "add_file"
        /\ ~lastCall'.raised
        /\ IsFile(lastCall'.full_path))
       => /\ ~lastCall'.result.success
          /\ ~IssuedWrite(hostCalls')
          /\ modified_files' = modified_files]_vars

\* C10: update_file that cannot obtain the fingerprint returns success=false,
\* issues no write and leaves the mutation log and the branch as they were; a
\* write update_file issues carries the fingerprint get_file_sha returned in
\* that call, for the same path.
C10_UpdateNeedsFingerprint ==
    /\ [](lastCall.name = "update_file" =>
            /\ hostCalls # <<>>
            /\ hostCalls[1].op = "get_file_sha"
            /\ hostCalls[1].ret <= 0 =>
                  Len(hostCalls) = 1 /\ ~lastCall.result.success
            /\ \A i \in DOMAIN hostCalls :
                  hostCalls[i].op = "update_file_content" =>
                      /\ i = 2
                      /\ hostCalls[1].ret > 0
                      /\ hostCalls[i].sha = hostCalls[1].ret
                      /\ hostCalls[i].path = hostCalls[1].path)
    /\ [][(lastCall'.name = "update_file" /\ dispatched' = dispatched + 1
           /\ hostCalls'[1].ret <= 0)
          => UNCHANGED <<modified_files, repo, hostWrites>>]_vars

C10_Witness ==
    /\ lastCall.name = "update_file"
    /\ hostCalls[1].ret = 0
    /\ IsFile(lastCall.full_path)
    /\ modified_files # <<>>

\* index of the last assistant message of the transcript, 0 when there is none
LastAssistant(history) ==
    IF \E i \in DOMAIN history : history[i].role = "assistant"
    THEN CHOOSE i \in DOMAIN history :
            /\ history[i].role = "assistant"
            /\ \A j \in DOMAIN history : history[j].role = "assistant" => j <= i
    ELSE 0

\* the messages appended after the last assistant message
AfterLastAssistant(history) ==
    SubSeq(history, LastAssistant(history) + 1, Len(history))

\* the calls the last assistant message requests
TurnCalls(history) ==
    IF LastAssistant(history) = 0 THEN <<>>
    ELSE history[LastAssistant(history)].tool_calls

\* C11: the calls of a turn are dispatched one at a time in request order: each
\* dispatch is of the first call of the turn that has no result yet, its result
\* is appended right after the results of the calls before it, and the engine
\* is called again only when every call of the turn has its result in the
\* transcript.
C11_ToolCallsInRequestOrder ==
    /\ [](pc \in {"loop", "tools"} /\ TurnCalls(conversation_history) # <<>> =>
            LET calls == TurnCalls(conversation_history)
                after == AfterLastAssistant(conversation_history)
            IN /\ Len(after) <= Len(calls)
               /\ \A i \in DOMAIN after :
                     after[i].role = "tool" /\ after[i].tool_call_id = calls[i].id
               /\ pending = SubSeq(calls, Len(after) + 1, Len(calls))
               /\ pc = "loop" <=> Len(after) = Len(calls))
    /\ [][dispatched' = dispatched + 1 =>
            LET calls == TurnCalls(conversation_history)
                i == Len(AfterLastAssistant(conversation_history)) + 1
            IN /\ i \in DOMAIN calls
               /\ lastCall'.name = calls[i].name
               /\ conversation_history' # conversation_history =>
                     conversation_history' =
                        Append(conversation_history, ToolMessage(calls[i].id, lastCall'.result))]_vars
    /\ [][engineCalls' = engineCalls + 1 =>
            /\ pending = <<>>
            /\ dispatched' = dispatched
            /\ TurnCalls(conversation_history) # <<>> =>
                  Len(AfterLastAssistant(conversation_history))
                     = Len(TurnCalls(conversation_history))]_vars

C11_Witness ==
    /\ engineCalls = 2
    /\ Len(conversation_history) >= 6
    /\ Len(conversation_history[3].tool_calls) = 2
    /\ conversation_history[4].role = "tool"
    /\ conversation_history[5].role = "tool"
    /\ conversation_history[4].tool_call_id = 11
    /\ conversation_history[5].tool_call_id = 12
    /\ conversation_history[4].result.success
    /\ ~conversation_history[5].result.success

IsToolMessage(m) == m.role = "tool"

IsPrefix(s, t) == Len(s) <= Len(t) /\ SubSeq(t, 1, Len(s)) = s

\* C13: once seeded, the transcript only grows by appending: every step leaves
\* the messages it holds as they are and in place; it starts with one system
\* message followed by one user message, holds no other system message, and
\* never holds two assistant messages next to each other.
C13_TranscriptAppendOnly ==
    /\ [][conversation_history # <<>> =>
            IsPrefix(conversation_history, conversation_history')]_vars
    /\ [](conversation_history # <<>> =>
            /\ Len(conversation_history) >= 2
            /\ conversation_history[1] = SystemMessage
            /\ conversation_history[2] = UserMessage(UserObjective)
            /\ \A i \in 2..Len(conversation_history) :
                  conversation_history[i].role # "system"
            /\ \A i \in 1..(Len(conversation_history) - 1) :
                  ~(/\ conversation_history[i].role = "assistant"
                    /\ conversation_history[i + 1].role = "assistant"))

C13_Witness ==
    /\ pc = "done"
    /\ Len(conversation_history) >= 7
    /\ conversation_history[3].role = "assistant"
    /\ conversation_history[4].role = "user"
    /\ conversation_history[5].role = "assistant"
    /\ conversation_history[6].role = "tool"
    /\ conversation_history[7].role = "assistant"

\* the summary of the finish_task call an assistant message requests
FinishSummary(m) ==
    LET i == CHOOSE k \in DOMAIN m.tool_calls : m.tool_calls[k].name = "finish_task"
    IN ParseArguments(m.tool_calls[i].arguments).summary

\* the name of the requested call a tool message answers
NameOfCall(history, id) ==
    LET m == CHOOSE a \in {history[i] : i \in DOMAIN history} :
                \E k \in DOMAIN a.tool_calls : a.tool_calls[k].id = id
    IN (CHOOSE c \in {m.tool_calls[k] : k \in DOMAIN m.tool_calls} : c.id = id).name

\* the tool messages that report a successful add_file, update_file or make_dir
SuccessfulMutations(history) ==
    {i \in DOMAIN history :
        /\ history[i].role = "tool"
        /\ history[i].result.success
        /\ NameOfCall(history, history[i].tool_call_id)
              \in {"add_file", "update_file", "make_dir"}}

CompletedByFinishTask == result.text = "Task completed successfully using finish_task"

\* C14: a run that completed through finish_task returns the success flag and
\* the summary the finish_task call passed, and the mutation log as it was at
\* that call: one record per successful mutating call made before it.
C14_FinishTaskResult ==
    CompletedByFinishTask =>
        /\ pc = "done"
        /\ lastCall.name = "finish_task"
        /\ result.success = FinishFlag(Last(conversation_history))
        /\ result.final_response = FinishSummary(Last(conversation_history))
        /\ "modified_files" \in result.keys
        /\ result.modified_files = modified_files
        /\ Len(result.modified_files)
              = Cardinality(SuccessfulMutations(conversation_history))
        /\ \A i \in DOMAIN result.modified_files :
              result.modified_files[i].file_path = hostWrites[i].path

C14_Witness ==
    /\ CompletedByFinishTask
    /\ ~result.success
    /\ Len(result.modified_files) = 2
    /\ result.modified_files[2].action = "updated"

\* C15: every record returned once the loop has started carries the iteration
\* count, the branch name and the mutation log accumulated so far.
C15_ResultCarriesProgress ==
    (pc = "done" /\ conversation_history # <<>>)
    => /\ {"iterations", "branch", "modified_files"} \subseteq result.keys
       /\ result.iterations = iteration
       /\ result.branch = working_branch
       /\ result.modified_files = modified_files

\* the completed record of a run, but for its pull_request_url, as the
\* transcript and the tool state determine it
CompletedRecordWithoutUrl ==
    IF CompletedByFinishTask
    THEN [keys |-> CompletedKeys \cup {"modified_files"},
          success |-> FinishFlag(Last(conversation_history)),
          text |-> "Task completed successfully using finish_task",
          final_response |-> FinishSummary(Last(conversation_history)),
          iterations |-> iteration, branch |-> branch_name,
          pull_request_url |-> 0, used_main_branch |-> FALSE,
          modified_files |-> modified_files]
    ELSE [keys |-> CompletedKeys, success |-> TRUE,
          text |-> "Task completed successfully",
          final_response |-> Last(conversation_history).content,
          iterations |-> iteration, branch |-> branch_name,
          pull_request_url |-> 0, used_main_branch |-> FALSE,
          modified_files |-> <<>>]

\* C16: in a completed run that asked for the pull request, the record is the
\* same whether create_pull_request returned a URL or None, but for its
\* pull_request_url: the success flag, the iteration count and the branch are
\* those of the completion.
C16_PullRequestFailureIsNotFatal ==
    (pc = "done" /\ Completed /\ prCalls # <<>>)
    => /\ result.pull_request_url \in {0, 1}
       /\ [result EXCEPT !.pull_request_url = 0] = CompletedRecordWithoutUrl

C16_Witness ==
    /\ CompletedByFinishTask
    /\ prCalls # <<>>
    /\ result.pull_request_url = 0
    /\ result.success
    /\ result.modified_files # <<>>
    /\ result.iterations = 2

FileTools == {"read_file", "update_file", "add_file"}

PathTools == FileTools \cup {"make_dir", "change_dir"}

\* the path parameter the last call of a path-taking tool was given
GivenPath ==
    IF lastCall.name \in FileTools THEN lastParameters.file_path
    ELSE lastParameters.directory_path

\* C17: a path-taking tool given a path that starts with "/" works on the path
\* without the leading "/", whatever the cursor is.
C17_LeadingSlashIsAbsolute ==
    (/\ lastCall.name \in PathTools
     /\ ~lastCall.raised
     /\ StartsWith(GivenPath, Slash))
    => lastCall.full_path = LStrip(GivenPath)

\* C18: a path-taking tool given a path that starts with the cursor and "/"
\* works on that path as it is, and given the empty path works on the cursor.
C18_QualifiedPathUsedAsIs ==
    [][(/\ dispatched' = dispatched + 1
        /\ lastCall'.name \in PathTools
        /\ ~lastCall'.raised)
       => /\ (/\ current_directory # <<>>
              /\ StartsWith(GivenPath', current_directory \o Slash))
             => lastCall'.full_path = GivenPath'
          /\ GivenPath' = <<>> => lastCall'.full_path = current_directory]_vars

\* the path parameter the last get_directory call was given, "" by default
GivenDirectory ==
    IF Has(lastParameters, "directory_path") THEN lastParameters.directory_path ELSE <<>>

\* a path that is neither empty, nor absolute, nor qualified by the cursor c
Relative(path, c) ==
    /\ path # <<>>
    /\ ~StartsWith(path, Slash)
    /\ ~StartsWith(path, c)

\* C19: with the cursor at a directory d, read_file, update_file and add_file
\* given a relative path p send d/p to the host, get_directory given a
\* relative path p lists d/p, and get_directory given no path lists d.
C19_RelativePathsUnderCursor ==
    [][(/\ dispatched' = dispatched + 1
        /\ current_directory # <<>>
        /\ ~lastCall'.raised)
       => /\ (lastCall'.name \in FileTools /\ Relative(GivenPath', current_directory))
             => hostCalls'[1].path = current_directory \o Slash \o GivenPath'
          /\ (lastCall'.name = "get_directory" /\ Relative(GivenDirectory', current_directory))
             => hostCalls'[1].path = current_directory \o Slash \o GivenDirectory'
          /\ (lastCall'.name = "get_directory" /\ GivenDirectory' = <<>>)
             => hostCalls'[1].path = current_directory]_vars

\* the host can list path on the branch: the root, or a directory holding a file
Listable(path) == path = <<>> \/ IsDir(path)

\* C20: only a change_dir whose target the host can list moves the cursor, to
\* that target; a change_dir whose target cannot be listed, or whose listing
\* raises, fails and leaves the cursor; no other tool moves it; so the cursor
\* is always the root or a directory of the branch.
C20_CursorOnlyByVerifiedChangeDir ==
    /\ [](Listable(current_directory))
    /\ [][dispatched' = dispatched + 1 =>
            /\ current_directory' # current_directory =>
                  /\ lastCall'.name = "change_dir"
                  /\ lastCall'.result.success
                  /\ current_directory' = lastCall'.full_path
                  /\ Listable(lastCall'.full_path)
            /\ (lastCall'.name = "change_dir" /\ ~lastCall'.raised
                /\ (~Listable(lastCall'.full_path) \/ hostCalls'[1].ret < 0))
               => /\ ~lastCall'.result.success
                  /\ current_directory' = current_directory]_vars

\* C21: make_dir on a directory that holds a file on the branch fails with
\* 'Directory already exists', sends no write to the host and leaves the
\* mutation log and the branch as they were.
C21_MakeDirOnExistingDirectory ==
    [][(/\ dispatched' = dispatched + 1
        /\ lastCall'.name = "make_dir"
        /\ IsDir(lastCall'.full_path))
       => /\ ~lastCall'.result.success
          /\ lastCall'.result.error = "Directory already exists"
          /\ hostCalls'[1].ret >= 0
          /\ ~IssuedWrite(hostCalls')
          /\ UNCHANGED <<modified_files, repo, hostWrites>>]_vars

C21_Witness ==
    /\ lastCall.name = "make_dir"
    /\ lastCall.full_path = P_d
    /\ lastCall.result.error = "Directory already exists"
    /\ hostCalls[1].ret = 1
    /\ absentListing
    /\ modified_files # <<>>

\* nothing is at path on the branch, neither a file nor a directory
Absent(path) == ~IsFile(path) /\ ~IsDir(path)

\* C22: make_dir on a directory that is not on the branch, reported by the
\* client as None or as an empty listing, sends exactly one write, of
\* <dir>/.gitkeep without a fingerprint on the tools' branch; when the write
\* goes through the call succeeds and appends that path as 'created', when it
\* fails the call fails and appends nothing.
C22_MakeDirCreatesPlaceholder ==
    [][(/\ dispatched' = dispatched + 1
        /\ lastCall'.name = "make_dir"
        /\ ~lastCall'.raised
        /\ Absent(lastCall'.full_path)
        /\ hostCalls'[1].ret \in {-2, 0})
       => /\ Len(hostCalls') = 2
          /\ hostCalls'[2].op = "update_file_content"
          /\ hostCalls'[2].path = lastCall'.full_path \o Slash \o GitKeep
          /\ hostCalls'[2].sha = 0
          /\ hostCalls'[2].branch = branch
          /\ IF hostCalls'[2].ret = 1
             THEN /\ lastCall'.result.success
                  /\ modified_files' =
                        Append(modified_files,
                               FileChange(lastCall'.full_path \o Slash \o GitKeep, "created"))
             ELSE /\ ~lastCall'.result.success
                  /\ modified_files' = modified_files]_vars

\* the number of places where sub occurs in s
Occurrences(sub, s) ==
    Cardinality({i \in 1..(Len(s) - Len(sub) + 1) : SubSeq(s, i, i + Len(sub) - 1) = sub})

PlainSentinel ==
    <<"F", "i", "l", "e", "s", " ", "C", "h", "a", "n", "g", "e", "d", ":",
      " ", "N", "o", "n", "e">>
MarkedUpSentinel ==
    <<"*", "*", "F", "i", "l", "e", "s", " ", "C", "h", "a", "n", "g", "e",
      "d", ":", "*", "*", " ", "N", "o", "n", "e">>

\* the line the body is to hold for one record of the log
ExpectedLine(f) ==
    Bullet \o Space \o Backtick \o f.file_path \o Backtick \o Space \o <<"-">> \o Space
    \o (IF f.action = "updated" THEN UpdatedText ELSE CreatedText) \o Newline

RECURSIVE ExpectedLines(_, _)
ExpectedLines(files, i) ==
    IF i > Len(files) THEN <<>> ELSE ExpectedLine(files[i]) \o ExpectedLines(files, i + 1)

\* an argument of the call other than the summary holds the text
InArguments(text) ==
    \/ Contains(description.objective, text)
    \/ Contains(description.branch, text)
    \/ \E i \in DOMAIN description.modified_files :
          Contains(description.modified_files[i].file_path, text)

Headings ==
    {ObjectiveHeading, BranchHeading, IterationsHeading, FilesChangedHeading,
     SummaryHeading}

\* the body the same arguments give without a summary
RestOfBody ==
    create_pr_description(description.objective, description.branch,
                          description.iterations, <<>>,
                          description.modified_files)

HasUsableToken(objective) == SummaryWords(objective) # <<>>

\* sessions i and j were constructed with equal objectives and no branch name
SameObjectiveNoName(i, j) ==
    /\ i \in DOMAIN naming.sessions
    /\ j \in DOMAIN naming.sessions
    /\ i # j
    /\ naming.sessions[i].objective = naming.sessions[j].objective
    /\ naming.sessions[i].given = <<>>
    /\ naming.sessions[j].given = <<>>

\* C25: two sessions constructed with equal objectives and no supplied branch
\* name have equal branch names whenever the objective yields a usable token,
\* whatever the times of their construction.
C25_DerivationIsDeterministic ==
    \A i, j \in 1..2 :
        (SameObjectiveNoName(i, j) /\ HasUsableToken(naming.sessions[i].objective)) =>
            naming.sessions[i].branch_name = naming.sessions[j].branch_name

C25_Witness ==
    /\ SameObjectiveNoName(1, 2)
    /\ naming.sessions[1].objective = O_fix_the_fix
    /\ naming.sessions[1].at # naming.sessions[2].at
    /\ naming.sessions[1].branch_name = naming.sessions[2].branch_name
    /\ naming.sessions[1].branch_name # BranchPrefix

\* s.split('-'): the pieces of s between hyphens, empty pieces included
RECURSIVE HyphenTokens(_, _)
HyphenTokens(s, token) ==
    IF s = <<>> THEN <<token>>
    ELSE IF Head(s) = "-" THEN <<token>> \o HyphenTokens(Tail(s), <<>>)
    ELSE HyphenTokens(Tail(s), Append(token, Head(s)))

IsLowerLetter(c) == \E k \in 1..26 : c = LowerLetters[k]
EndsWith(s, e) == Len(e) <= Len(s) /\ SubSeq(s, Len(s) - Len(e) + 1, Len(s)) = e

\* the part of a derived name after the prefix 'ai-dev/'
AfterPrefix(name) == SubSeq(name, Len(BranchPrefix) + 1, Len(name))

\* C26: the name derived for an objective starts with 'ai-dev/'; the part after
\* the prefix has at most 50 characters, a joined summary longer than that
\* being cut to its first 47 characters plus '...'; a part that was not cut is
\* made of at most 5 tokens joined by hyphens, each a non-empty run of
\* lowercase letters (of lowercase letters or digits in the time-stamped
\* fallback name).
C26_PrefixedBoundedName ==
    \A i \in DOMAIN naming.sessions :
        naming.sessions[i].given = <<>> =>
            LET objective == naming.sessions[i].objective
                name == naming.sessions[i].branch_name
                part == AfterPrefix(name)
                joined == JoinWords(SummaryWords(objective))
                tokens == HyphenTokens(part, <<>>)
            IN  /\ StartsWith(name, BranchPrefix)
                /\ Len(part) <= 50
                /\ Len(joined) > 50 =>
                      /\ Len(part) = 50
                      /\ part = SubSeq(joined, 1, 47) \o Ellipsis
                /\ ~EndsWith(part, Ellipsis) =>
                      /\ Len(tokens) <= 5
                      /\ \A k \in 1..Len(tokens) :
                            /\ tokens[k] # <<>>
                            /\ \A n \in 1..Len(tokens[k]) :
                                  \/ IsLowerLetter(tokens[k][n])
                                  \/ ~HasUsableToken(objective) /\ IsDigit(tokens[k][n])

C26_Witness ==
    /\ Len(naming.sessions) = 2
    /\ naming.sessions[1].given = <<>>
    /\ naming.sessions[2].given = <<>>
    /\ naming.sessions[1].objective = O_long
    /\ Len(AfterPrefix(naming.sessions[1].branch_name)) = 50
    /\ EndsWith(naming.sessions[1].branch_name, Ellipsis)
    /\ naming.sessions[2].objective = O_signup
    /\ Len(HyphenTokens(AfterPrefix(naming.sessions[2].branch_name), <<>>)) = 5

\* sessions i and j were constructed at different seconds
AtDifferentTimes(i, j) == naming.sessions[i].at # naming.sessions[j].at

\* C27 as stated: a name derived for a session carries the time stamp of its
\* construction, so two sessions constructed at different times with equal
\* objectives and no supplied branch name have different branches, and no
\* write of one is on the branch of the other.
C27_TimestampSeparatesSessions ==
    \A i, j \in 1..2 :
        (SameObjectiveNoName(i, j) /\ AtDifferentTimes(i, j)) =>
            /\ EndsWith(naming.sessions[i].branch_name, Timestamp(naming.sessions[i].at))
            /\ naming.sessions[i].branch_name # naming.sessions[j].branch_name
            /\ \A w \in naming.writes :
                  w.by = i => w.branch # naming.sessions[j].branch_name

\* two sessions with the objective 'Fix login bug' constructed a second apart:
\* both have created "their" branch and both have written on it
C27_SharedBranch ==
    /\ SameObjectiveNoName(1, 2)
    /\ AtDifferentTimes(1, 2)
    /\ naming.sessions[1].objective = O_fix_login_bug
    /\ naming.sessions[1].branch_created
    /\ naming.sessions[2].branch_created
    /\ [by |-> 1, branch |-> naming.sessions[2].branch_name] \in naming.writes
    /\ [by |-> 2, branch |-> naming.sessions[1].branch_name] \in naming.writes

\* what session i owns, read through its references
ViewOf(i) ==
    LET a == pair.assistants[i]
    IN  Owned(pair.heap[a.conversation_history], a.current_directory,
              pair.heap[a.modified_files], a.result)

\* one step of a session that runs alone, on what it owns by value
AloneStep(a, st, step) ==
    LET own == st.own
    IN  CASE step.kind = "begin" ->
                [st EXCEPT !.own.conversation_history =
                               <<SystemMessage, UserMessage(a.objective)>>]
          [] step.kind = "turn" ->
                [st EXCEPT !.iteration = @ + 1,
                           !.own.conversation_history =
                               Append(@, AssistantMessage(<<>>, <<step.call>>))]
          [] step.kind = "tool" ->
                [st EXCEPT
                    !.own.conversation_history =
                        Append(@, ToolMessage(st.iteration, Result(step.ok, ""))),
                    !.own.current_directory = CursorAfter(@, step.call, step.ok),
                    !.own.modified_files =
                        @ \o Tracked(own.current_directory, step.call, step.ok, a.branch)]
          [] OTHER ->
                IF st.iteration < MaxPairIterations
                THEN [st EXCEPT
                         !.iteration = @ + 1,
                         !.own.conversation_history =
                             Append(@, AssistantMessage(<<>>, <<FinishCall>>)),
                         !.own.result =
                             [returned |-> TRUE, success |-> TRUE,
                              iterations |-> st.iteration + 1, branch |-> a.branch,
                              modified_files |-> own.modified_files]]
                ELSE [st EXCEPT
                         !.own.result =
                             [returned |-> TRUE, success |-> FALSE,
                              iterations |-> st.iteration, branch |-> a.branch,
                              modified_files |-> <<>>]]

\* the session run alone on the engine and host answers of its trace
RECURSIVE RunAlone(_, _, _)
RunAlone(a, trace, st) ==
    IF trace = <<>> THEN st ELSE RunAlone(a, Tail(trace), AloneStep(a, st, Head(trace)))

Alone(i) ==
    RunAlone(pair.assistants[i], pair.assistants[i].trace,
             [own |-> Owned(<<>>, <<>>, <<>>, NoPairResult), iteration |-> 0]).own

\* C28: in every interleaving of two sessions, a step of one session leaves the
\* transcript, the cursor, the mutation log and the result of the other as
\* they were, and what each session owns is what it would own had it run
\* alone on the same engine and host answers.
C28_SessionsShareNothing ==
    /\ [](\A i \in DOMAIN pair.assistants : ViewOf(i) = Alone(i))
    /\ [][\A i, j \in DOMAIN pair.assistants :
             (i # j /\ pair'.assistants[i].trace # pair.assistants[i].trace) =>
                 ViewOf(j)' = ViewOf(j)]_vars

C28_Witness ==
    /\ Len(pair.assistants) = 2
    /\ pair.assistants[1].pc = "done"
    /\ pair.assistants[2].pc = "done"
    /\ pair.assistants[1].branch = pair.assistants[2].branch
    /\ pair.assistants[1].conversation_history > pair.assistants[2].conversation_history
    /\ ViewOf(1).current_directory = P_d
    /\ ViewOf(2).current_directory = <<>>
    /\ Len(ViewOf(1).modified_files) = 1
    /\ ViewOf(1).modified_files[1].file_path = P_da
    /\ Len(ViewOf(2).modified_files) = 1
    /\ ViewOf(2).result.success
    /\ ViewOf(2).result.modified_files = ViewOf(2).modified_files
    /\ ~ViewOf(1).result.success
    /\ Len(ViewOf(1).conversation_history) = 6

\* the other clients that are members of the channel client c is a member of
OtherMembers(c) ==
    {r \in Clients \ {c} :
        /\ c \in DOMAIN relay.client_channels
        /\ r \in DOMAIN relay.client_channels
        /\ relay.client_channels[r] = relay.client_channels[c]}

\* this step, the handler thread of c takes the line 'AUDIO x' of its client
TakesAudio(c) ==
    /\ relay'.handled = relay.handled + 1
    /\ relay'.last = [client |-> c, line |-> M_audio_x]

\* this step, the handler thread of c sends to the next recipient
SendsNext(c) == relay.handler[c].pc = "send" /\ relay'.handler[c] # relay.handler[c]

AudioFrame(c) ==
    [type |-> "AUDIO", data |-> relay.handler[c].audio_data, from |-> c,
     channel |-> relay.handler[c].from_channel]

ElementsOf(list) == {list[k] : k \in 1..Len(list)}

\* C29: the audio a client sends while a member of a channel goes to the
\* clients that are the other members of that channel when the server takes
\* it, each once, and never to the sender; audio of a client that is in no
\* channel goes to nobody.
C29_AudioToOtherMembers ==
    /\ [](\A c \in Clients : \A f \in relay.received[c] : f.type = "AUDIO" => f.from # c)
    /\ [][\A c \in Clients :
             /\ TakesAudio(c) =>
                   LET h == relay'.handler[c]
                   IN  /\ ElementsOf(h.recipients) = OtherMembers(c)
                       /\ Len(h.recipients) = Cardinality(OtherMembers(c))
                       /\ (h.pc = "send") = (OtherMembers(c) # {})
                       /\ h.pc = "send" =>
                             /\ h.audio_data = <<"x">>
                             /\ h.from_channel = relay.client_channels[c]
             /\ SendsNext(c) =>
                   LET to == Head(relay.handler[c].recipients)
                   IN  /\ to # c
                       /\ Online(to) => AudioFrame(c) \in relay'.received[to]
                       /\ \A r \in Clients \ {to} : relay'.received[r] = relay.received[r]
                       /\ relay'.handler[c].pc = "send" =>
                             relay'.handler[c].recipients = Tail(relay.handler[c].recipients)]_vars

C29_Witness ==
    /\ relay.handler["c1"].pc = "recv"
    /\ relay.last = [client |-> "c1", line |-> M_audio_x]
    /\ relay.client_channels = [c \in Clients |-> <<"a">>]
    /\ \A c \in {"c2", "c3"} :
          [type |-> "AUDIO", data |-> <<"x">>, from |-> "c1", channel |-> <<"a">>]
              \in relay.received[c]
    /\ \A f \in relay.received["c1"] : f.type = "JOINED"

\* the number of places client c has in the member lists of the channels
Memberships(c) ==
    Cardinality({<<ch, k>> \in (DOMAIN relay.channels) \X (1..Cardinality(Clients)) :
                    k <= Len(relay.channels[ch]) /\ relay.channels[ch][k] = c})

\* C30: in every interleaving of the handler threads a client is a member of
\* at most one channel, and audio is delivered to a client only from the
\* channel it is a member of at the delivery: none of a channel it has left,
\* by LEAVE or by the JOIN of another channel.
C30_AudioOnlyFromCurrentChannel ==
    /\ [](\A c \in Clients : Memberships(c) <= 1)
    /\ [][\A c \in Clients :
             (SendsNext(c) /\ Online(Head(relay.handler[c].recipients))) =>
                 LET to == Head(relay.handler[c].recipients)
                 IN  /\ to \in DOMAIN relay.client_channels
                     /\ relay.client_channels[to] = relay.handler[c].from_channel]_vars

\* the first half of C30 on its own: at most one membership per client
C30_AtMostOneChannel == \A c \in Clients : Memberships(c) <= 1

\* the messages this step appends to the transcript
Appended ==
    SubSeq(conversation_history', Len(conversation_history) + 1, Len(conversation_history'))

\* C31: in an iteration that neither completes nor fails the session, a turn
\* without tool calls is followed by exactly one user message asking to
\* continue, a turn with tool calls by none (only by the results of its
\* calls); so whenever the engine is about to be called, every assistant
\* message of the transcript is followed by a message that is not the
\* assistant's.
C31_OneNudgePerIdleTurn ==
    /\ [](pc = "loop" =>
             \A i \in DOMAIN conversation_history :
                 conversation_history[i].role = "assistant" =>
                     /\ i < Len(conversation_history)
                     /\ conversation_history[i + 1].role # "assistant")
    /\ [][/\ (pc = "loop" /\ pc' = "loop") =>
                /\ ai_response'.calls = <<>>
                /\ Len(Appended) = 2
                /\ Appended[1].role = "assistant"
                /\ Appended[1].tool_calls = <<>>
                /\ Appended[2] = UserMessage(ContinueMessage)
          /\ (pc = "loop" /\ pc' = "tools") =>
                /\ ai_response'.calls # <<>>
                /\ Len(Appended) = 1
                /\ Appended[1].role = "assistant"
          /\ (pc = "tools" /\ pc' \in {"tools", "loop"}) =>
                /\ Len(Appended) = 1
                /\ Appended[1].role = "tool"]_vars

C31_Witness ==
    /\ pc = "loop"
    /\ iteration = 2
    /\ Len(conversation_history) = 6
    /\ conversation_history[3].role = "assistant"
    /\ conversation_history[3].tool_calls = <<>>
    /\ conversation_history[4] = UserMessage(ContinueMessage)
    /\ conversation_history[5].role = "assistant"
    /\ conversation_history[6].role = "tool"

\* C32: over the host client as implemented, which answers a missing
\* directory and a failed request with an empty listing, a change_dir to a
\* directory that is not on the branch fails and leaves the cursor.
C32_MissingDirectoryRefused ==
    [][(/\ dispatched' = dispatched + 1
        /\ ~absentListing
        /\ lastCall'.name = "change_dir"
        /\ ~lastCall'.raised
        /\ ~Listable(lastCall'.full_path))
       => /\ ~lastCall'.result.success
          /\ current_directory' = current_directory]_vars

NoSlash(s) == \A i \in DOMAIN s : s[i] # "/"

\* the cursor c without its last segment
Parent(c) ==
    IF NoSlash(c) THEN <<>>
    ELSE LET k == CHOOSE k \in 1..Len(c) : c[k] = "/" /\ NoSlash(SubSeq(c, k + 1, Len(c)))
         IN SubSeq(c, 1, k - 1)

\* a relative directory of one segment
SingleSegment(p) == p # <<>> /\ NoSlash(p) /\ p # P_dot /\ p # P_up

\* C33: change_dir(".") leaves the cursor; change_dir("..") takes the last
\* segment off the cursor and leaves it at the root; a successful
\* change_dir("..") right after a successful change_dir to a relative
\* directory of one segment puts the cursor back where it was before the two.
C33_DotAndDotDot ==
    [][(/\ dispatched' = dispatched + 1
        /\ lastCall'.name = "change_dir"
        /\ ~lastCall'.raised)
       => /\ GivenPath' = P_dot => current_directory' = current_directory
          /\ GivenPath' = P_up =>
                /\ lastCall'.full_path = Parent(current_directory)
                /\ current_directory' =
                      IF lastCall'.result.success THEN Parent(current_directory)
                      ELSE current_directory
                /\ current_directory = <<>> => current_directory' = <<>>
          /\ (/\ GivenPath' = P_up
              /\ lastCall'.result.success
              /\ lastCall.name = "change_dir"
              /\ lastCall.result.success
              /\ SingleSegment(GivenPath))
             => current_directory =
                   IF current_directory' = <<>> THEN GivenPath
                   ELSE current_directory' \o Slash \o GivenPath]_vars

\* into d, into e, and back to d, over a host that refuses missing directories
C33_Witness ==
    /\ absentListing
    /\ dispatched = 3
    /\ lastCall.name = "change_dir"
    /\ lastCall.result.success
    /\ GivenPath = P_up
    /\ current_directory = P_d

\* C34: when execute_objective returns a completed result, every tool call
\* the final assistant turn requested has been dispatched: neither a
\* completion phrase nor a finish_task ahead of other calls leaves a
\* requested call behind.
C34_CompletedLeavesNoCallBehind ==
    (pc = "done" /\ Completed) => pending = <<>>

\* a relative path that is not the cursor c and is not qualified by c and "/"
NotUnder(path, c) ==
    /\ path # <<>>
    /\ ~StartsWith(path, Slash)
    /\ path # c
    /\ ~StartsWith(path, c \o Slash)

\* C35: with the cursor at a directory c, read_file, update_file, add_file
\* and make_dir given a relative path p that is neither c nor under c work
\* on c/p, also when p begins with the text of c.
C35_SiblingPathsUnderCursor ==
    [][(/\ dispatched' = dispatched + 1
        /\ current_directory # <<>>
        /\ lastCall'.name \in FileTools \cup {"make_dir"}
        /\ ~lastCall'.raised
        /\ NotUnder(GivenPath', current_directory))
       => /\ lastCall'.full_path = current_directory \o Slash \o GivenPath'
          /\ hostCalls'[1].path = current_directory \o Slash \o GivenPath']_vars

\* the segments of a path: what lies between its "/" characters
SegmentsOf(s) ==
    LET cuts == {0, Len(s) + 1} \cup {i \in DOMAIN s : s[i] = "/"}
    IN {SubSeq(s, i + 1, j - 1) : <<i, j>> \in
           {c \in cuts \X cuts : c[1] < c[2] /\ \A k \in cuts : ~(c[1] < k /\ k < c[2])}}

NormalForm(c) ==
    c = <<>> \/ \A seg \in SegmentsOf(c) : seg # <<>> /\ seg # P_dot /\ seg # P_up

\* C36: after any sequence of change_dir calls the cursor is empty or is
\* non-empty segments joined by "/": no "/" at either end, no empty segment,
\* no "." and no ".." segment.
C36_CursorInNormalForm == NormalForm(current_directory)

\* the worker threads inside _process_ticket_async for ticket key k: past the
\* first statement and not yet through the finally block
RunningFor(k) ==
    {w \in Deliveries : /\ webhook.thread[w].ticket_key = k
                        /\ webhook.thread[w].pc \in {"processing", "discarded"}}

\* the processing of ticket key k has finished
FinishedFor(k) ==
    \E w \in Deliveries : /\ webhook.thread[w].ticket_key = k
                          /\ webhook.thread[w].pc = "finished"

\* C37: however deliveries and workers interleave, at most one worker runs
\* _process_ticket_async for a ticket key at a time, and an issue-created
\* delivery never starts a worker for a key whose processing has finished.
C37_OneWorkerPerTicket ==
    /\ [](\A k \in Tickets : Cardinality(RunningFor(k)) <= 1)
    /\ [][\A d \in Deliveries :
             (webhook.thread[d].pc = "none" /\ webhook'.thread[d].pc = "started")
             => ~FinishedFor(webhook'.thread[d].ticket_key)]_vars

\* C38: the branch name derived for an objective never holds two dots in a
\* row, also when the joined summary was cut.
C38_DerivedNameHasNoDoubleDot ==
    \A i \in DOMAIN naming.sessions :
        naming.sessions[i].given = <<>> =>
            ~Contains(naming.sessions[i].branch_name, <<".", ".">>)

====
